---- MODULE Spec2Model ----
(***************************************************************************)
(* A model of the radiance-cascade GI engine (class RadianceCascades) and  *)
(* of the parts of the render loop in main.cpp that share its OpenGL       *)
(* state (texture units, render targets).                                  *)
(*                                                                         *)
(* The OpenGL context is modelled by what the engine can observe of it:    *)
(* the storage (size, format) of every object the engine allocates, the    *)
(* contents of the cascade and temporal textures, the texture bound to     *)
(* each texture unit, the active unit, the sampler/flag uniforms of the    *)
(* radiance shader, and the commands issued by the last operation.         *)
(***************************************************************************)
EXTENDS Integers, Sequences, FiniteSets, TLC

\* ------------------------------------------------------------------ bounds
MaxCascades == 3
MaxClock == 2
ScreenSizes == {<<800, 600>>, <<160, 120>>}
\* the sizes and cascade counts the setup routines are exercised on
MaxSetupCascades == 6
SetupSizes == {<<w, h>> : w \in {1, 100, 160, 171, 800, 1280, 1920},
                         h \in {1, 120, 128, 600, 800, 1080}}

\* the cascade counts the engine's operations are exercised on one by one
EngineCascades == {1}

\* ------------------------------------------------------- program constants
MinCascadeRes == 128
PreviousCascadeUnit == 4
TemporalBufferUnit == 5
EmissionUnit == 6
CompositeSlots == 6
LastUnit == 11

VARIABLES
    screenWidth, screenHeight, numCascades,   \* RadianceCascades members
    useTemporalBuffer, frameCounter,
    cascadeWidths, cascadeHeights,
    targets,          \* GL storage of every object the engine owns
    cascadeContent,   \* contents of cascadeTextures[i]
    temporalContent,  \* contents of temporalTextures[i]
    tempBlurContent,  \* contents of tempBlurTextures[i]
    gpuObjects,       \* the handles holding live GL names, and the names no handle holds
    texUnit,          \* texture bound to each texture unit
    activeTexture,    \* glActiveTexture
    rcUniforms,       \* uniforms of the radiance shader program
    passes,           \* commands issued by the last engine call
    clock,            \* number of compute calls so far (the shader's time)
    lastCall,         \* the last engine call and its arguments
    mainLocals,       \* the locals and statics of main's render loop, and its position
    inputData,        \* the atomic flags of InputData
    inputThread,      \* the input thread: its key-state statics, whether it runs
    window            \* the GLFW window: framebuffer size, close flag

engineVars == <<screenWidth, screenHeight, numCascades, useTemporalBuffer,
                frameCounter, cascadeWidths, cascadeHeights, targets,
                cascadeContent, temporalContent, tempBlurContent, gpuObjects,
                texUnit, activeTexture, rcUniforms, passes, clock, lastCall>>
appVars == <<mainLocals, inputData, inputThread, window>>
vars == <<engineVars, appVars>>

\* ------------------------------------------------------- the state of main
\* the toggle flags, in the order the render loop polls them
ToggleFlags ==
    <<"ambientToggle", "giToggle", "ssaoToggle", "lightToggle", "ssrToggle",
      "antiAliasingToggle", "qualityToggle", "resetTemporal", "pauseToggle">>
\* the flags the input thread raises on the rising edge of a key
EdgeFlags == {ToggleFlags[i] : i \in DOMAIN ToggleFlags} \cup {"showPerformance"}
\* the flags the input thread rewrites from the key state on every iteration
\* (moveBackward/Left/Right follow moveForward, lightMoveZ/Y follow lightMoveX,
\* lightRadiusDelta follows lightIntensityDelta)
LevelFlags == {"moveForward", "lightMoveX", "lightIntensityDelta", "exitRequested"}

\* how far the camera (the light) is from the last recorded one, against the
\* thresholds of the render loop
Deltas == {"none", "small", "large"}

\* main's state when the render loop is entered
AppInit ==
    /\ mainLocals = [pc |-> "loop", ambientEnabled |-> FALSE, giEnabled |-> TRUE,
                     ssaoEnabled |-> FALSE, ssrEnabled |-> FALSE, lightEnabled |-> TRUE,
                     paused |-> FALSE, antiAliasingMode |-> 2, qualityLevel |-> 2,
                     lastWidth |-> 0, lastHeight |-> 0,
                     firstCameraFrame |-> TRUE, cameraDelta |-> "none",
                     lightDelta |-> "none",
                     \* what this iteration has done so far
                     acted |-> "none", invalidated |-> FALSE, resetCalled |-> FALSE,
                     resized |-> FALSE]
    /\ inputData = [f \in EdgeFlags \cup LevelFlags |-> FALSE]
    /\ inputThread = [last |-> [f \in EdgeFlags |-> FALSE], running |-> TRUE,
                      accessed |-> {}]
    /\ window = [width |-> 1280, height |-> 800, shouldClose |-> FALSE]

\* ----------------------------------------------------------------- helpers
Max(a, b) == IF a >= b THEN a ELSE b
Min(a, b) == IF a <= b THEN a ELSE b
Pow2(n) == 2 ^ n
\* x >> n on a non-negative int
ShiftRight(x, n) == x \div Pow2(n)

Levels == 0 .. (numCascades - 1)

\* ------------------------------------------------------------ object names
NoTexture == <<"none", 0>>
Cascade(i) == <<"cascadeTexture", i>>
TempBlur(i) == <<"tempBlurTexture", i>>
Temporal(i) == <<"temporalTexture", i>>
GPosition == <<"gPosition", 0>>
GNormal == <<"gNormal", 0>>
GAlbedo == <<"gAlbedo", 0>>
GDepth == <<"gDepth", 0>>
GVelocity == <<"gVelocity", 0>>
GEmission == <<"gEmission", 0>>
RboDepth == <<"rboDepth", 0>>
HistoryTexture == <<"historyTexture", 0>>
SsaoTexture == <<"ssaoTexture", 0>>
SsaoBlurTexture == <<"ssaoBlurTexture", 0>>
NoiseTexture == <<"noiseTexture", 0>>
SsrTexture == <<"ssrTexture", 0>>
TaaTexture == <<"taaTexture", 0>>
\* framebuffer object handles
GBufferFbo == <<"gBuffer", 0>>
\* the vectors of numCascades handles each
CascadeFbos == <<"cascadeFBOs", 0>>
CascadeTextures == <<"cascadeTextures", 0>>
TempBlurFbos == <<"tempBlurFBOs", 0>>
TempBlurTextures == <<"tempBlurTextures", 0>>
TemporalFbos == <<"temporalFBOs", 0>>
TemporalTextures == <<"temporalTextures", 0>>
SsaoFbo == <<"ssaoFBO", 0>>
SsaoBlurFbo == <<"ssaoBlurFBO", 0>>
SsrFbo == <<"ssrFBO", 0>>
TaaFbo == <<"taaFBO", 0>>
\* the local tempFBO of setupTAA and applyTAA
TempFbo == <<"tempFBO", 0>>
\* the shadow map's depth texture, owned by main.cpp
ShadowDepthMap == <<"shadowMap.depthMap", 0>>

GBufferObjects == {GPosition, GNormal, GAlbedo, GDepth, GVelocity, GEmission, RboDepth}
AuxObjects == {HistoryTexture, SsaoTexture, SsaoBlurTexture, SsrTexture, TaaTexture}
FullSizeObjects == GBufferObjects \cup AuxObjects
CascadeObjects == {Cascade(i) : i \in Levels} \cup {TempBlur(i) : i \in Levels}
                    \cup {Temporal(i) : i \in Levels}
EngineObjects == FullSizeObjects \cup CascadeObjects \cup {NoiseTexture}

Deleted == [w |-> 0, h |-> 0, fmt |-> "deleted"]
Storage(w, h, fmt) == [w |-> w, h |-> h, fmt |-> fmt]

\* --------------------------------------------------------- texture contents
\* dirs: the blur directions applied to the data since it was drawn
Undefined == [kind |-> "undefined", level |-> -1, time |-> -1, bits |-> 0, blended |-> FALSE,
              dirs |-> {}]
Zero == [kind |-> "zero", level |-> -1, time |-> -1, bits |-> 0, blended |-> FALSE,
         dirs |-> {}]
Radiance(i, t, bits, blended) ==
    [kind |-> "radiance", level |-> i, time |-> t, bits |-> bits, blended |-> blended,
     dirs |-> {}]

FormatBits(fmt) == IF fmt = "RGBA32F" THEN 32 ELSE 16

\* glBlitFramebuffer between targets of equal size: the colour data is
\* converted to the destination's storage format.
BlitConvert(c, dstFmt) ==
    IF c.kind = "radiance" THEN [c EXCEPT !.bits = Min(@, FormatBits(dstFmt))] ELSE c

\* ---------------------------------------------------------------- GL state
\* The operators below thread a record g:
\*   unit, active, targets, cc (cascade contents), tc (temporal contents),
\*   tb (scratch-blur contents),
\*   cw, ch (cascadeWidths/Heights), gpu (GL object names),
\*   uni (radiance shader uniforms), fc (the member frameCounter as the
\*   passes of a frame see it), log
GL == [unit |-> texUnit, active |-> activeTexture, targets |-> targets,
       cc |-> cascadeContent, tc |-> temporalContent, tb |-> tempBlurContent,
       cw |-> cascadeWidths, ch |-> cascadeHeights,
       gpu |-> gpuObjects, uni |-> rcUniforms, fc |-> frameCounter, log |-> <<>>]

ActiveTexture(g, u) == [g EXCEPT !.active = u]
BindTexture(g, name) == [g EXCEPT !.unit[g.active] = name]
BindAt(g, u, name) == BindTexture(ActiveTexture(g, u), name)
Issue(g, cmd) == [g EXCEPT !.log = Append(@, cmd)]

\* glGenTextures + glBindTexture + glTexImage2D(..., NULL)
AllocTexture(g, name, w, h, fmt) ==
    [BindTexture(g, name) EXCEPT !.targets[name] = Storage(w, h, fmt)]

\* glDeleteTextures: a deleted texture is unbound from every unit
DeleteObjects(g, names) ==
    [g EXCEPT !.targets = [n \in DOMAIN @ |-> IF n \in names THEN Deleted ELSE @[n]],
              !.unit = [u \in DOMAIN @ |-> IF @[u] \in names THEN NoTexture ELSE @[u]]]

\* GL object names are tracked per handle: a handle holds live names after
\* glGen* and until glDelete*; names that were live in a handle when glGen*
\* overwrote it are held by no handle any more.
\* checked: the framebuffer handles whose completeness was checked since they
\* were generated; uncheckedUse: those a setup routine cleared before that
NoObjects ==
    [live |-> {}, leaked |-> 0, badRelease |-> FALSE, checked |-> {},
     uncheckedUse |-> {}]

VectorHandles ==
    {CascadeFbos, CascadeTextures, TempBlurFbos, TempBlurTextures, TemporalFbos,
     TemporalTextures}

\* the number of GL names the handles hs hold: numCascades for a vector
ObjectCount(hs) ==
    Cardinality(hs \ VectorHandles) + numCascades * Cardinality(hs \cap VectorHandles)

\* the handles after glGen* stored fresh names in the handles hs
Named(gpu, hs) ==
    [gpu EXCEPT !.leaked = @ + ObjectCount(hs \cap gpu.live),
                !.live = @ \cup hs]

\* the handles after glDelete* of the names in the handles hs; releasing a
\* name that is not live (never generated, or released before) is recorded
Released(gpu, hs) ==
    [gpu EXCEPT !.badRelease = @ \/ ~(hs \subseteq gpu.live),
                !.live = @ \ hs,
                !.checked = @ \ hs]

\* glGenFramebuffers / glGenTextures / glGenRenderbuffers on the handles hs
GenNames(g, hs) ==
    CHOOSE r \in {[c EXCEPT !.gpu = Named(c.gpu, hs)] : c \in {g}} : TRUE

\* glDeleteFramebuffers / glDeleteTextures / glDeleteRenderbuffers
DeleteNames(g, hs) ==
    CHOOSE r \in {[c EXCEPT !.gpu = Released(c.gpu, hs)] : c \in {g}} : TRUE

\* glCheckFramebufferStatus on the framebuffers of the handles hs, with the
\* "... incomplete!" message when it fails: nothing else depends on the result
CheckFramebufferStatus(g, hs) ==
    CHOOSE r \in {[c EXCEPT !.gpu.checked = @ \cup hs] : c \in {g}} : TRUE

\* glClear in a setup routine with a framebuffer of the handles hs bound
ClearFramebuffer(g, hs) ==
    CHOOSE r \in {[c EXCEPT !.gpu.uncheckedUse = @ \cup (hs \ c.gpu.checked)] :
                     c \in {g}} : TRUE

\* glGenFramebuffers(1, &tempFBO) ... glDeleteFramebuffers(1, &tempFBO), on
\* a local handle
WithTempFbo(g) == DeleteNames(GenNames(g, {TempFbo}), {TempFbo})

\* ------------------------------------------------------------ setup routines
\* a resolution rule that never exceeds the width the engine had before
StaleCascadeRes(i, screen) ==
    IF i < 2 THEN Min(screen, screenWidth)
    ELSE IF i = 2 THEN ShiftRight(Min(screen, screenWidth) * 3, 2)
    ELSE Max(MinCascadeRes, ShiftRight(Min(screen, screenWidth), i - 1))

\* The per-level resolution rule of setupCascades, for one axis.
CascadeRes(i, screen) ==
    IF i = 0 THEN screen
    ELSE IF i = 1 THEN screen
    ELSE IF i = 2 THEN ShiftRight(screen * 3, 2)
    ELSE Max(MinCascadeRes, ShiftRight(screen, i - 1))

CascadeFormat(i) == IF i < 2 THEN "RGBA32F" ELSE "RGBA16F"

SetupGBuffer(g, w, h) ==
    LET g0 == GenNames(g, {GBufferFbo, GPosition, GNormal, GAlbedo, GDepth,
                           GVelocity, GEmission, RboDepth})
        g1 == AllocTexture(g0, GPosition, w, h, "RGB16F")
        g2 == AllocTexture(g1, GNormal, w, h, "RG16F")
        g3 == AllocTexture(g2, GAlbedo, w, h, "RGBA8")
        g4 == AllocTexture(g3, GDepth, w, h, "R16F")
        g5 == AllocTexture(g4, GVelocity, w, h, "RG16F")
        g6 == AllocTexture(g5, GEmission, w, h, "RGB16F")
    IN  CheckFramebufferStatus([g6 EXCEPT !.targets[RboDepth] = Storage(w, h, "DEPTH24")],
                               {GBufferFbo})

SetupCascades(g, w, h) ==
    LET cw == [i \in Levels |-> CascadeRes(i, w)]
        ch == [i \in Levels |-> CascadeRes(i, h)]
    IN  [CheckFramebufferStatus(GenNames(g, {CascadeFbos, CascadeTextures}),
                                {CascadeFbos}) EXCEPT
            !.cw = cw,
            !.ch = ch,
            !.targets = [n \in DOMAIN @ |->
                           IF n \in {Cascade(i) : i \in Levels}
                           THEN Storage(cw[n[2]], ch[n[2]], CascadeFormat(n[2]))
                           ELSE @[n]],
            !.cc = [i \in Levels |-> Undefined],
            !.unit[g.active] = Cascade(numCascades - 1)]

SetupBlurTargets(g) ==
    [CheckFramebufferStatus(GenNames(g, {TempBlurFbos, TempBlurTextures}),
                            {TempBlurFbos}) EXCEPT
        !.targets = [n \in DOMAIN @ |->
                       IF n \in {TempBlur(i) : i \in Levels}
                       THEN Storage(g.cw[n[2]], g.ch[n[2]], "RGBA16F")
                       ELSE @[n]],
        !.tb = [i \in Levels |-> Undefined],
        !.unit[g.active] = TempBlur(numCascades - 1)]

ClearCmd(name) == [op |-> "clear", level |-> name[2], target |-> name]

\* temporal buffers allocated at the screen size, whatever the level
SetupTemporalAtScreenSize(g) ==
    [GenNames(g, {TemporalFbos, TemporalTextures}) EXCEPT
        !.targets = [n \in DOMAIN @ |->
                       IF n \in {Temporal(i) : i \in Levels}
                       THEN Storage(screenWidth, screenHeight, "RGBA16F")
                       ELSE @[n]],
        !.tc = [i \in Levels |-> Zero]]

SetupTemporalBuffers(g) ==
    [CheckFramebufferStatus(ClearFramebuffer(GenNames(g, {TemporalFbos, TemporalTextures}),
                                             {TemporalFbos}), {TemporalFbos}) EXCEPT
        !.targets = [n \in DOMAIN @ |->
                       IF n \in {Temporal(i) : i \in Levels}
                       THEN Storage(g.cw[n[2]], g.ch[n[2]], "RGBA16F")
                       ELSE @[n]],
        !.tc = [i \in Levels |-> Zero],
        !.unit[g.active] = Temporal(numCascades - 1),
        !.log = @ \o [i \in 1 .. numCascades |-> ClearCmd(Temporal(i - 1))]]

SetupTAA(g, w, h) ==
    LET g1 == AllocTexture(GenNames(g, {HistoryTexture}), HistoryTexture, w, h, "RGBA16F")
    IN  DeleteNames(ClearFramebuffer(GenNames(Issue(g1, ClearCmd(HistoryTexture)),
                                              {TempFbo}), {TempFbo}), {TempFbo})

SetupSSAO(g, w, h) ==
    LET g0 == GenNames(g, {NoiseTexture, SsaoFbo, SsaoTexture, SsaoBlurFbo,
                           SsaoBlurTexture})
        g1 == AllocTexture(g0, NoiseTexture, 4, 4, "RGB32F")
        g2 == AllocTexture(g1, SsaoTexture, w, h, "RED")
    IN  CheckFramebufferStatus(AllocTexture(g2, SsaoBlurTexture, w, h, "RED"),
                               {SsaoFbo, SsaoBlurFbo})

SetupSSR(g, w, h) ==
    LET g0 == GenNames(g, {SsrFbo, SsrTexture, TaaFbo, TaaTexture})
    IN  CheckFramebufferStatus(AllocTexture(AllocTexture(g0, SsrTexture, w, h, "RGBA16F"),
                                            TaaTexture, w, h, "RGBA16F"),
                               {SsrFbo, TaaFbo})

\* a cleanup that forgets the noise texture
ReleasedAllButNoise ==
    ({GBufferFbo, SsaoFbo, SsaoBlurFbo, SsrFbo, TaaFbo} \cup FullSizeObjects
        \cup VectorHandles) \ {NoiseTexture}

\* the handles cleanup passes to glDelete*
ReleasedHandles ==
    {GBufferFbo, SsaoFbo, SsaoBlurFbo, SsrFbo, TaaFbo} \cup FullSizeObjects
        \cup {NoiseTexture} \cup VectorHandles

Cleanup(g) == DeleteNames(DeleteObjects(g, EngineObjects), ReleasedHandles)

\* a resize tail that forgets the last setup routine
SetupAllWithoutSSR(g, w, h) ==
    SetupSSAO(SetupTAA(SetupTemporalBuffers(SetupBlurTargets(
        SetupCascades(SetupGBuffer(g, w, h), w, h))), w, h), w, h)

\* The constructor body and the tail of resize: every setup routine in order.
SetupAll(g, w, h) ==
    CHOOSE r \in {SetupSSR(g6, w, h) :
                    g6 \in {SetupSSAO(g5, w, h) :
                    g5 \in {SetupTAA(g4, w, h) :
                    g4 \in {SetupTemporalBuffers(g3) :
                    g3 \in {SetupBlurTargets(g2) :
                    g2 \in {SetupCascades(g1, w, h) :
                    g1 \in {SetupGBuffer(g, w, h)}}}}}}} : TRUE

ResizeFrameCounter == 0

DefaultUniforms ==
    [previousCascade |-> 0, temporalBuffer |-> 0, useTemporalAccumulation |-> FALSE,
     cascadeIndex |-> 0, minDist |-> 0, maxDist |-> 0, frameCounter |-> 0,
     activeCascades |-> 0]

\* A fresh OpenGL context, before the engine is constructed.
FreshContext(n) ==
    [unit |-> [u \in 0 .. LastUnit |-> NoTexture], active |-> 0,
     targets |-> [o \in {Cascade(i) : i \in 0 .. n - 1} \cup {TempBlur(i) : i \in 0 .. n - 1}
                         \cup {Temporal(i) : i \in 0 .. n - 1} \cup FullSizeObjects
                         \cup {NoiseTexture} |-> Deleted],
     cc |-> [i \in 0 .. n - 1 |-> Undefined], tc |-> [i \in 0 .. n - 1 |-> Undefined],
     tb |-> [i \in 0 .. n - 1 |-> Undefined],
     cw |-> [i \in 0 .. n - 1 |-> 0], ch |-> [i \in 0 .. n - 1 |-> 0],
     gpu |-> NoObjects, uni |-> DefaultUniforms, fc |-> 0, log |-> <<>>]

\* assignment of a threaded GL record to the primed variables
Commit(g) ==
    /\ texUnit' = g.unit
    /\ activeTexture' = g.active
    /\ targets' = g.targets
    /\ cascadeContent' = g.cc
    /\ temporalContent' = g.tc
    /\ tempBlurContent' = g.tb
    /\ gpuObjects' = g.gpu
    /\ cascadeWidths' = g.cw
    /\ cascadeHeights' = g.ch
    /\ rcUniforms' = g.uni
    /\ passes' = g.log

Call(name, a, b) == [op |-> name, a |-> a, b |-> b]

\* RadianceCascades::RadianceCascades(width, height, num)
Construct(width, height, num) ==
    /\ screenWidth = width
    /\ screenHeight = height
    /\ numCascades = num
    /\ useTemporalBuffer = TRUE
    /\ frameCounter = 0
    /\ clock = 0
    /\ lastCall = Call("construct", width, height)
    /\ \E g \in {SetupAll(FreshContext(num), width, height)} :
           /\ texUnit = g.unit
           /\ activeTexture = g.active
           /\ targets = g.targets
           /\ cascadeContent = g.cc
           /\ temporalContent = g.tc
           /\ tempBlurContent = g.tb
           /\ gpuObjects = g.gpu
           /\ cascadeWidths = g.cw
           /\ cascadeHeights = g.ch
           /\ rcUniforms = g.uni
           /\ passes = g.log

Init ==
    /\ AppInit
    /\ \E size \in ScreenSizes, n \in 1 .. MaxCascades : Construct(size[1], size[2], n)

\* RadianceCascades::resize(width, height)
Resize(width, height) ==
    /\ screenWidth' = width
    /\ screenHeight' = height
    /\ frameCounter' = ResizeFrameCounter
    /\ \E g0 \in {Cleanup(GL)} : \E g \in {SetupAll(g0, width, height)} : Commit(g)
    /\ lastCall' = Call("resize", width, height)
    /\ UNCHANGED <<numCascades, useTemporalBuffer, clock>>

\* ------------------------------------------------------------------ compute
\* temporal blending decided by the flag alone, whatever frameCounter is
TemporalFlagOnly == useTemporalBuffer

\* useTemporalBuffer && frameCounter > 0
UseTemporalNow == useTemporalBuffer /\ frameCounter > 0

\* a copy made on every pass, whatever the flag
AlwaysCopy == TRUE

\* the copy to the temporal buffer is made when useTemporalBuffer is set
CopyToTemporal == useTemporalBuffer

\* a band whose far bound does not double
MaxDistNotDoubled(i) == Pow2(i) + 1

MinDist(i) == Pow2(i)
MaxDist(i) == Pow2(i + 1)

\* the loop run finest level first
AscendingOrder(activeCascades) == [n \in 1 .. activeCascades |-> n - 1]

\* the levels in the order the loop visits them: activeCascades-1 down to 0
RECURSIVE LevelOrder(_)
LevelOrder(activeCascades) ==
    IF activeCascades <= 0 THEN <<>>
    ELSE <<activeCascades - 1>> \o LevelOrder(activeCascades - 1)

\* whether the loop body binds cascadeTextures[i+1] to the previousCascade unit
BindsPreviousCascade(i) == i < numCascades - 1

BindForReading(g) ==
    BindAt(BindAt(BindAt(BindAt(BindAt(g, 0, GPosition), 1, GNormal), 2, GAlbedo),
                  3, GDepth), EmissionUnit, GEmission)

\* the textures a radiance draw can sample: the units its sampler uniforms name
RadianceDraw(g, i) ==
    [op |-> "radiance", level |-> i, target |-> Cascade(i),
     minDist |-> g.uni.minDist, maxDist |-> g.uni.maxDist,
     cascadeIndex |-> g.uni.cascadeIndex,
     previousCascade |-> g.unit[g.uni.previousCascade],
     temporalBuffer |-> g.unit[g.uni.temporalBuffer],
     unit4 |-> g.unit[PreviousCascadeUnit],
     unit5 |-> g.unit[TemporalBufferUnit],
     gbuffer |-> {g.unit[0], g.unit[1], g.unit[2], g.unit[3], g.unit[EmissionUnit]},
     useTemporalAccumulation |-> g.uni.useTemporalAccumulation]

\* a copy issued for the level above the one just drawn
BlitOfCoarserLevel(i) ==
    [op |-> "blit", level |-> i + 1, target |-> Temporal(i + 1), src |-> Cascade(i + 1)]

BlitCmd(i) == [op |-> "blit", level |-> i, target |-> Temporal(i), src |-> Cascade(i)]

\* one iteration of the loop of compute
ComputeLevel(g, i) ==
    LET g1 == [g EXCEPT !.uni.cascadeIndex = i, !.uni.minDist = MinDist(i),
                        !.uni.maxDist = MaxDist(i)]
        g2 == IF BindsPreviousCascade(i)
              THEN [BindAt(g1, PreviousCascadeUnit, Cascade(i + 1))
                        EXCEPT !.uni.previousCascade = PreviousCascadeUnit]
              ELSE g1
        g3 == IF UseTemporalNow
              THEN [BindAt(g2, TemporalBufferUnit, Temporal(i))
                        EXCEPT !.uni.temporalBuffer = TemporalBufferUnit]
              ELSE [g2 EXCEPT !.uni.useTemporalAccumulation = FALSE]
        draw == RadianceDraw(g3, i)
        g4 == [Issue(g3, draw) EXCEPT
                  !.cc[i] = Radiance(i, clock, FormatBits(g3.targets[Cascade(i)].fmt),
                                     draw.useTemporalAccumulation)]
    IN  IF CopyToTemporal
        THEN [Issue(g4, BlitCmd(i)) EXCEPT
                 !.tc[i] = BlitConvert(g4.cc[i], g4.targets[Temporal(i)].fmt)]
        ELSE g4

RECURSIVE ComputeLoop(_, _)
ComputeLoop(g, order) ==
    IF order = <<>> THEN g
    ELSE CHOOSE r \in {ComputeLoop(n, Tail(order)) :
                          n \in {ComputeLevel(g, Head(order))}} : TRUE

\* RadianceCascades::compute(shader, view, projection, activeCascades)
Compute(activeCascades) ==
    /\ clock < MaxClock
    /\ LET ac == IF activeCascades = -1 THEN numCascades ELSE activeCascades
           \* main sets the shader's activeCascades right before the call
           g0 == [GL EXCEPT !.uni.activeCascades = ac,
                            !.uni.frameCounter = frameCounter,
                            !.uni.useTemporalAccumulation = UseTemporalNow]
       IN  Commit(ComputeLoop(BindForReading(g0), LevelOrder(ac)))
    /\ frameCounter' = frameCounter + 1
    /\ clock' = clock + 1
    /\ lastCall' = Call("compute", activeCascades, frameCounter)
    /\ UNCHANGED <<screenWidth, screenHeight, numCascades, useTemporalBuffer>>

\* ------------------------------------------------------ temporal accumulator
\* a reset that clears only the levels of the last compute
ActiveLevelsOnly == 0 .. (rcUniforms.activeCascades - 1)

\* the levels whose temporal buffer resetTemporalAccumulation clears
ResetLevels == Levels

ResetBody(g) ==
    [g EXCEPT !.tc = [i \in DOMAIN @ |-> IF i \in ResetLevels THEN Zero ELSE @[i]],
              !.log = @ \o [n \in 1 .. numCascades |-> ClearCmd(Temporal(n - 1))]]

\* RadianceCascades::resetTemporalAccumulation()
ResetTemporalAccumulation ==
    /\ frameCounter' = 0
    /\ Commit(ResetBody(GL))
    /\ lastCall' = Call("resetTemporalAccumulation", 0, 0)
    /\ UNCHANGED <<screenWidth, screenHeight, numCascades, useTemporalBuffer, clock>>

\* a setTemporalAccumulation that resets whatever the flag
ResetsOnAnySet(enabled) == TRUE

\* whether setTemporalAccumulation(enabled) goes on to reset
ResetsOnSet(enabled) == ~enabled

\* RadianceCascades::setTemporalAccumulation(enabled)
SetTemporalAccumulation(enabled) ==
    /\ useTemporalBuffer' = enabled
    /\ IF ResetsOnSet(enabled)
       THEN frameCounter' = 0 /\ Commit(ResetBody(GL))
       ELSE frameCounter' = frameCounter /\ Commit(GL)
    /\ lastCall' = Call("setTemporalAccumulation", IF enabled THEN 1 ELSE 0,
                        IF useTemporalBuffer THEN 1 ELSE 0)
    /\ UNCHANGED <<screenWidth, screenHeight, numCascades, clock>>

\* --------------------------------------------------------------------- blur
\* a filter direction applied to the data read, stored at the target's format
ApplyBlur(c, dir, dstFmt) ==
    IF c.kind = "radiance"
    THEN [c EXCEPT !.dirs = @ \cup {dir}, !.bits = Min(@, FormatBits(dstFmt))]
    ELSE c

\* a vertical pass that samples the texture it renders to
VerticalReadsCascade(i) == Cascade(i)

\* the textures bound to unit 0 (inputTexture) in the two passes of level i
HorizontalInput(i) == Cascade(i)
VerticalInput(i) == TempBlur(i)

\* a loop body that leaves levels at the minimum resolution alone
SkipsSmallLevels(i) == cascadeWidths[i] > MinCascadeRes

\* the loop body blurs every level it visits, whatever its size
BlursLevel(i) == TRUE

\* a blur draw that renders into the level's temporal buffer
BlurDrawIntoTemporal(g, dir, i, target) ==
    [op |-> "blur", dir |-> dir, level |-> i, target |-> Temporal(i),
     inputTexture |-> g.unit[0], guides |-> {g.unit[1], g.unit[2]}]

BlurDraw(g, dir, i, target) ==
    [op |-> "blur", dir |-> dir, level |-> i, target |-> target,
     inputTexture |-> g.unit[0], guides |-> {g.unit[1], g.unit[2]}]

BindBlurInputs(g, input) ==
    BindAt(BindAt(BindAt(g, 0, input), 1, GPosition), 2, GNormal)

\* one iteration of the loop of blur: cascade -> scratch, scratch -> cascade
BlurLevel(g, i) ==
    LET h  == BindBlurInputs(g, HorizontalInput(i))
        h1 == [Issue(h, BlurDraw(h, "horizontal", i, TempBlur(i))) EXCEPT
                  !.tb[i] = ApplyBlur(h.cc[i], "horizontal", h.targets[TempBlur(i)].fmt)]
        v  == BindBlurInputs(h1, VerticalInput(i))
        src == IF v.unit[0] = TempBlur(i) THEN v.tb[i] ELSE Undefined
    IN  [Issue(v, BlurDraw(v, "vertical", i, Cascade(i))) EXCEPT
            !.cc[i] = ApplyBlur(src, "vertical", v.targets[Cascade(i)].fmt)]

RECURSIVE BlurLoop(_, _, _)
BlurLoop(g, i, activeCascades) ==
    IF i >= activeCascades THEN g
    ELSE CHOOSE r \in {BlurLoop(n, i + 1, activeCascades) :
                          n \in {IF BlursLevel(i) THEN BlurLevel(g, i) ELSE g}} : TRUE

\* RadianceCascades::blur(blurShader, activeCascades)
Blur(activeCascades) ==
    /\ LET ac == IF activeCascades = -1 THEN numCascades ELSE activeCascades
       IN  Commit(BlurLoop(GL, 0, ac))
    /\ lastCall' = Call("blur", activeCascades, frameCounter)
    /\ UNCHANGED <<screenWidth, screenHeight, numCascades, useTemporalBuffer,
                   frameCounter, clock>>

\* ------------------------------------------------------- render loop (main)
\* G-buffer pass: bindGBufferForWriting, then each entity is drawn; an entity
\* with a material binds its maps and then unbinds units 0..5.
UnbindMaterialUnits(g) ==
    [g EXCEPT !.unit = [u \in DOMAIN @ |-> IF u < 6 THEN NoTexture ELSE @[u]],
              !.active = 5]

GBufferPass(hasMaterial) ==
    /\ LET g == IF hasMaterial THEN UnbindMaterialUnits(GL) ELSE GL
       IN  texUnit' = g.unit /\ activeTexture' = g.active
    /\ UNCHANGED <<screenWidth, screenHeight, numCascades, useTemporalBuffer,
                   frameCounter, cascadeWidths, cascadeHeights, targets,
                   cascadeContent, temporalContent, tempBlurContent, gpuObjects,
                   rcUniforms, passes, clock, lastCall>>

\* the texture main binds to composite slot i (unit 4 + i)
CompositeSlot(i, activeCascades) ==
    IF i < activeCascades THEN Cascade(i) ELSE GPosition

CompositeBindings(g, activeCascades) ==
    LET g1 == BindAt(BindAt(BindAt(BindAt(g, 0, GPosition), 1, GNormal), 2, GAlbedo),
                     3, ShadowDepthMap)
        g2 == BindAt(BindAt(g1, 10, SsaoBlurTexture), 11, GEmission)
    IN  [g2 EXCEPT
            !.unit = [u \in DOMAIN @ |->
                        IF u >= 4 /\ u < 4 + CompositeSlots
                        THEN CompositeSlot(u - 4, activeCascades) ELSE @[u]],
            !.active = 4 + CompositeSlots - 1]

\* main: final composite pass with the frame's activeCascades: the count
\* handed to compute in this frame, or 0 when GI is disabled
Composite(activeCascades) ==
    /\ LET g == CompositeBindings(GL, activeCascades)
       IN  texUnit' = g.unit /\ activeTexture' = g.active
    /\ UNCHANGED <<screenWidth, screenHeight, numCascades, useTemporalBuffer,
                   frameCounter, cascadeWidths, cascadeHeights, targets,
                   cascadeContent, temporalContent, tempBlurContent, gpuObjects,
                   rcUniforms, passes, clock, lastCall>>

\* ------------------------------------------------------------ specification
Next ==
    \/ \E k \in -1 .. numCascades : Compute(k) /\ UNCHANGED appVars
    \/ \E size \in ScreenSizes : Resize(size[1], size[2]) /\ UNCHANGED appVars
    \/ ResetTemporalAccumulation /\ UNCHANGED appVars
    \/ \E enabled \in BOOLEAN : SetTemporalAccumulation(enabled) /\ UNCHANGED appVars
    \/ \E hasMaterial \in BOOLEAN : GBufferPass(hasMaterial) /\ UNCHANGED appVars
    \/ \E k \in {0, Min(rcUniforms.activeCascades, CompositeSlots)} : Composite(k) /\ UNCHANGED appVars

Spec == Init /\ [][Next]_vars

\* compute and blur, as the GI pass of the render loop calls them
BlurNext ==
    \/ \E k \in -1 .. numCascades : Compute(k) /\ UNCHANGED appVars
    \/ \E k \in -1 .. numCascades : Blur(k) /\ UNCHANGED appVars

BlurSpec == Init /\ [][BlurNext]_vars

\* ------------------------------------------- arguments outside [0, numCascades]
\* compute and blur use activeCascades as given: only -1 is replaced. A level
\* index i >= numCascades reads cascadeWidths[i], cascadeFBOs[i], ... past the
\* end of the vectors, which is undefined behaviour: the call may crash, or go
\* on with a stray framebuffer name that is no engine target, or with one
\* that happens to be a temporal framebuffer of the engine.
Crash == <<"crash", 0>>
Miss == <<"miss", 0>>
Alias(j) == <<"alias", j>>
Outcomes == {Crash, Miss} \cup {Alias(j) : j \in Levels}

\* how far outside the valid range the arguments are taken
MaxOvershoot == 1
ArgRange == (-1 - MaxOvershoot) .. (numCascades + MaxOvershoot)

OutOfRangeUse(i) == [op |-> "outOfRange", level |-> i, target |-> <<"outOfRange", i>>]

\* the iterations with i >= numCascades, from index `from` down to numCascades
RECURSIVE StrayIterations(_, _, _)
StrayIterations(g, from, outcome) ==
    IF from < numCascades THEN g
    ELSE LET g1 == Issue(g, OutOfRangeUse(from))
             g2 == IF outcome[1] = "alias"
                   THEN [g1 EXCEPT !.tc[outcome[2]] = Undefined]
                   ELSE g1
         IN  StrayIterations(g2, from - 1, outcome)

Crashed(activeCascades, first) ==
    /\ passes' = <<OutOfRangeUse(first)>>
    /\ lastCall' = Call("crash", activeCascades, frameCounter)
    /\ UNCHANGED <<screenWidth, screenHeight, numCascades, useTemporalBuffer,
                   frameCounter, cascadeWidths, cascadeHeights, targets,
                   cascadeContent, temporalContent, tempBlurContent, gpuObjects,
                   texUnit, activeTexture, rcUniforms, clock>>

\* compute with an argument of any value
ComputeAnyArg(activeCascades, outcome) ==
    /\ lastCall.op # "crash"
    /\ IF activeCascades <= numCascades
       THEN Compute(activeCascades)
       ELSE /\ clock < MaxClock
            /\ IF outcome = Crash
               THEN Crashed(activeCascades, activeCascades - 1)
               ELSE /\ LET g0 == [GL EXCEPT !.uni.activeCascades = activeCascades,
                                            !.uni.frameCounter = frameCounter,
                                            !.uni.useTemporalAccumulation = UseTemporalNow]
                           g1 == StrayIterations(BindForReading(g0), activeCascades - 1,
                                                 outcome)
                       IN  Commit(ComputeLoop(g1, LevelOrder(numCascades)))
                    /\ frameCounter' = frameCounter + 1
                    /\ clock' = clock + 1
                    /\ lastCall' = Call("compute", activeCascades, frameCounter)
                    /\ UNCHANGED <<screenWidth, screenHeight, numCascades,
                                   useTemporalBuffer>>

\* blur with an argument of any value: the in-range levels come first
BlurAnyArg(activeCascades, outcome) ==
    /\ lastCall.op # "crash"
    /\ IF activeCascades <= numCascades
       THEN Blur(activeCascades)
       ELSE IF outcome = Crash
            THEN Crashed(activeCascades, numCascades)
            ELSE /\ LET g1 == BlurLoop(GL, 0, numCascades)
                        g2 == StrayIterations(g1, activeCascades - 1, outcome)
                    IN  Commit(g2)
                 /\ lastCall' = Call("blur", activeCascades, frameCounter)
                 /\ UNCHANGED <<screenWidth, screenHeight, numCascades,
                                useTemporalBuffer, frameCounter, clock>>

ClampNext ==
    \/ \E k \in ArgRange, outcome \in Outcomes : ComputeAnyArg(k, outcome) /\ UNCHANGED appVars
    \/ \E k \in ArgRange, outcome \in Outcomes : BlurAnyArg(k, outcome) /\ UNCHANGED appVars

ClampSpec == Init /\ [][ClampNext]_vars

\* ------------------------------------------------- one frame of the render loop
\* targets of main.cpp
CompositeTexture == <<"compositeTexture", 0>>
Screen == <<"screen", 0>>

\* a command of a pass other than the radiance, copy and blur commands
PassCmd(name, target, reads) ==
    [op |-> name, level |-> 0, target |-> target, reads |-> reads]

\* PASS 1: shadowMap.bindForWriting and the depth-only draws
ShadowStage(g) == Issue(g, PassCmd("shadow", ShadowDepthMap, {}))

\* PASS 2: rc.bindGBufferForWriting (bind and clear), main's own glClear with
\* the G-buffer still bound, then the geometry draws
GBufferStage(g, hasMaterial) ==
    LET g1 == Issue(g, PassCmd("bindGBufferForWriting", GBufferFbo, {}))
        g2 == Issue(g1, ClearCmd(GBufferFbo))
        g3 == Issue(g2, PassCmd("geometry", GBufferFbo, {}))
    IN  IF hasMaterial THEN UnbindMaterialUnits(g3) ELSE g3

\* an SSAO pass that renders into the G-buffer framebuffer
SsaoIntoGBuffer(g) ==
    LET b == BindAt(BindAt(BindAt(g, 0, GPosition), 1, GNormal), 2, NoiseTexture)
    IN  Issue(b, PassCmd("ssao", GBufferFbo, {b.unit[0], b.unit[1], b.unit[2]}))

\* RadianceCascades::computeSSAO
ComputeSSAO(g) ==
    LET b == BindAt(BindAt(BindAt(g, 0, GPosition), 1, GNormal), 2, NoiseTexture)
    IN  Issue(b, PassCmd("ssao", SsaoTexture, {b.unit[0], b.unit[1], b.unit[2]}))

\* RadianceCascades::blurSSAO
BlurSSAO(g) ==
    LET b == BindAt(g, 0, SsaoTexture)
    IN  Issue(b, PassCmd("ssaoBlur", SsaoBlurTexture, {b.unit[0]}))

\* PASS 3 and 4
SsaoStage(g, ssaoEnabled, qualityLevel) ==
    IF ssaoEnabled /\ qualityLevel > 0
    THEN IF qualityLevel > 1 THEN BlurSSAO(ComputeSSAO(g)) ELSE ComputeSSAO(g)
    ELSE g

\* the cascade count main derives from the quality level
ActiveCascadesFor(giEnabled, qualityLevel) ==
    IF giEnabled THEN Max(0, Min(qualityLevel + 2, 6)) ELSE 0

\* a render loop that blurs every cascade slot at every quality
BlurCountIgnoringQuality(qualityLevel, activeCascades) == 6

\* the count main hands to rc.blur (0: blur is not called)
BlurCountFor(qualityLevel, activeCascades) ==
    IF qualityLevel = 0 THEN 0
    ELSE IF qualityLevel = 1 THEN (IF activeCascades >= 2 THEN 2 ELSE activeCascades)
    ELSE activeCascades

\* PASS 5: rc.compute when GI is enabled
ComputeStage(g, giEnabled, qualityLevel) ==
    LET ac == ActiveCascadesFor(giEnabled, qualityLevel)
        g0 == [g EXCEPT !.uni.activeCascades = ac,
                        !.uni.frameCounter = frameCounter,
                        !.uni.useTemporalAccumulation = UseTemporalNow]
    IN  IF giEnabled
        THEN [ComputeLoop(BindForReading(g0), LevelOrder(ac)) EXCEPT !.fc = @ + 1]
        ELSE g

\* PASS 6: rc.blur when GI is enabled
BlurStage(g, giEnabled, qualityLevel) ==
    LET ac == ActiveCascadesFor(giEnabled, qualityLevel)
    IN  IF giEnabled THEN BlurLoop(g, 0, BlurCountFor(qualityLevel, ac)) ELSE g

\* the ssaoStrength uniform of the composite shader: 1.0 or 0.0
SsaoStrengthFor(ssaoEnabled, qualityLevel) ==
    IF ssaoEnabled /\ qualityLevel > 0 THEN 1 ELSE 0

\* PASS 7: composite into main's offscreen target
CompositeStage(g, activeCascades, ssaoStrength) ==
    LET b == CompositeBindings(g, activeCascades)
    IN  Issue(b, [op |-> "composite", level |-> 0, target |-> CompositeTexture,
                  reads |-> {b.unit[u] : u \in 0 .. LastUnit},
                  ssaoTexture |-> b.unit[10], ssaoStrength |-> ssaoStrength])

\* PASS 8: RadianceCascades::computeSSR
SsrStage(g, ssrEnabled) ==
    LET b == BindAt(BindAt(BindAt(BindAt(g, 0, GPosition), 1, GNormal), 2, GAlbedo),
                    3, CompositeTexture)
    IN  IF ssrEnabled
        THEN Issue(b, PassCmd("ssr", SsrTexture,
                              {b.unit[0], b.unit[1], b.unit[2], b.unit[3]}))
        ELSE g

\* RadianceCascades::applyFXAA
ApplyFXAA(g) ==
    LET b == BindAt(g, 0, CompositeTexture)
    IN  Issue(b, PassCmd("fxaa", TaaTexture, {b.unit[0]}))

\* RadianceCascades::applyTAA, with its copy to the history texture
ApplyTAA(g) ==
    LET b == BindAt(BindAt(BindAt(BindAt(g, 0, CompositeTexture), 1, HistoryTexture),
                           2, GVelocity), 3, GPosition)
        d == Issue(b, [op |-> "taa", level |-> 0, target |-> TaaTexture,
                       reads |-> {b.unit[0], b.unit[1], b.unit[2], b.unit[3]},
                       historyFrame |-> b.unit[1], frameCounter |-> b.fc])
    IN  WithTempFbo(Issue(d, PassCmd("historyCopy", HistoryTexture, {TaaTexture})))

\* PASS 9: antiAliasingMode 0 = none, 1 = FXAA, 2 = TAA
AAStage(g, antiAliasingMode) ==
    IF antiAliasingMode = 1 THEN ApplyFXAA(g)
    ELSE IF antiAliasingMode = 2 THEN ApplyTAA(g)
    ELSE g

\* PASS 10: the final texture drawn to the default framebuffer
PresentStage(g, antiAliasingMode) ==
    LET b == BindAt(g, 0, IF antiAliasingMode = 0 THEN CompositeTexture ELSE TaaTexture)
    IN  Issue(b, PassCmd("present", Screen, {b.unit[0]}))

\* the rendering pipeline of one iteration of the render loop
Frame(qualityLevel, giEnabled, ssaoEnabled, ssrEnabled, antiAliasingMode, hasMaterial) ==
    /\ giEnabled => clock < MaxClock
    /\ \E g1 \in {GBufferStage(ShadowStage(GL), hasMaterial)} :
       \E g2 \in {SsaoStage(g1, ssaoEnabled, qualityLevel)} :
       \E g3 \in {ComputeStage(g2, giEnabled, qualityLevel)} :
       \E g4 \in {BlurStage(g3, giEnabled, qualityLevel)} :
       \E g5 \in {CompositeStage(g4, ActiveCascadesFor(giEnabled, qualityLevel),
                                   SsaoStrengthFor(ssaoEnabled, qualityLevel))} :
       \E g6 \in {AAStage(SsrStage(g5, ssrEnabled), antiAliasingMode)} :
          Commit(PresentStage(g6, antiAliasingMode))
    /\ frameCounter' = IF giEnabled THEN frameCounter + 1 ELSE frameCounter
    /\ clock' = IF giEnabled THEN clock + 1 ELSE clock
    /\ lastCall' = Call("frame", qualityLevel, IF giEnabled THEN 1 ELSE 0)
    /\ UNCHANGED <<screenWidth, screenHeight, numCascades, useTemporalBuffer>>

\* main constructs the engine as rc(1280, 800, 6)
EngineOfMain == Construct(1280, 800, 6)

FrameInit == AppInit /\ EngineOfMain

\* the toggles of a frame: <<ssaoEnabled, ssrEnabled, antiAliasingMode, hasMaterial>>
FrameToggles ==
    {<<FALSE, FALSE, 0, FALSE>>, <<TRUE, TRUE, 1, TRUE>>,
     <<TRUE, FALSE, 2, FALSE>>, <<FALSE, TRUE, 2, TRUE>>}

FrameNext ==
    \/ \E q \in 0 .. 4, gi \in BOOLEAN, t \in FrameToggles :
          Frame(q, gi, t[1], t[2], t[3], t[4]) /\ UNCHANGED appVars
    \/ ResetTemporalAccumulation /\ UNCHANGED appVars
    \/ \E size \in ScreenSizes : Resize(size[1], size[2]) /\ UNCHANGED appVars

FrameSpec == FrameInit /\ [][FrameNext]_vars

\* The engine's remaining public operations, each called on its own: the
\* G-buffer bind, the SSAO, SSR and anti-aliasing passes, and a getter.
EngineOps ==
    {"bindGBufferForWriting", "computeSSAO", "blurSSAO", "computeSSR", "applyFXAA",
     "applyTAA", "getTexture"}

EngineOp(name) ==
    /\ Commit(CASE name = "bindGBufferForWriting" ->
                      Issue(Issue(GL, PassCmd(name, GBufferFbo, {})), ClearCmd(GBufferFbo))
                 [] name = "computeSSAO" -> ComputeSSAO(GL)
                 [] name = "blurSSAO" -> BlurSSAO(GL)
                 [] name = "computeSSR" -> SsrStage(GL, TRUE)
                 [] name = "applyFXAA" -> ApplyFXAA(GL)
                 [] name = "applyTAA" -> ApplyTAA(GL)
                 [] OTHER -> GL)
    /\ lastCall' = Call(name, 0, frameCounter)
    /\ UNCHANGED <<screenWidth, screenHeight, numCascades, useTemporalBuffer,
                   frameCounter, clock>>

\* every public operation of the engine, in any order
EngineNext ==
    \/ \E k \in -1 .. numCascades : Compute(k) /\ UNCHANGED appVars
    \/ \E k \in -1 .. numCascades : Blur(k) /\ UNCHANGED appVars
    \/ \E size \in ScreenSizes : Resize(size[1], size[2]) /\ UNCHANGED appVars
    \/ ResetTemporalAccumulation /\ UNCHANGED appVars
    \/ \E enabled \in BOOLEAN : SetTemporalAccumulation(enabled) /\ UNCHANGED appVars
    \/ \E name \in EngineOps : EngineOp(name) /\ UNCHANGED appVars

EngineInit ==
    /\ AppInit
    /\ \E size \in ScreenSizes, n \in EngineCascades : Construct(size[1], size[2], n)

EngineSpec == EngineInit /\ [][EngineNext]_vars

\* The setup routines alone, over a wider range of sizes and cascade counts.
SetupInit ==
    /\ AppInit
    /\ \E size \in SetupSizes, n \in 1 .. MaxSetupCascades : Construct(size[1], size[2], n)

SetupNext == \E size \in SetupSizes : Resize(size[1], size[2]) /\ UNCHANGED appVars

SetupSpec == SetupInit /\ [][SetupNext]_vars

\* RadianceCascades::~RadianceCascades()
Destroy ==
    /\ Commit(Cleanup(GL))
    /\ lastCall' = Call("destroy", 0, 0)
    /\ UNCHANGED <<screenWidth, screenHeight, numCascades, useTemporalBuffer,
                   frameCounter, clock>>

\* The life of one engine object: constructed, resized any number of times,
\* destroyed.
LifeSizes == {<<w, h>> : w \in {160, 800, 1280}, h \in {120, 600, 800}}

LifeInit ==
    /\ AppInit
    /\ \E size \in LifeSizes, n \in 1 .. MaxSetupCascades : Construct(size[1], size[2], n)

LifeNext ==
    \/ lastCall.op # "destroy" /\ \E size \in LifeSizes : Resize(size[1], size[2]) /\ UNCHANGED appVars
    \/ lastCall.op # "destroy" /\ Destroy /\ UNCHANGED appVars

LifeSpec == LifeInit /\ [][LifeNext]_vars

\* ------------------------------------------------------------ the render loop
\* the scene main loads (Scene::Scene, loadTeapotLightbox) has material components
SceneHasMaterial == TRUE

\* the steps of one iteration of the render loop, in program order
LoopSteps ==
    <<"loop", "exit">> \o ToggleFlags
        \o <<"movement", "scene", "resize", "render", "showPerformance">>
StepIndex(pc) == CHOOSE i \in DOMAIN LoopSteps : LoopSteps[i] = pc
StepAfter(pc) ==
    IF StepIndex(pc) = Len(LoopSteps) THEN "loop" ELSE LoopSteps[StepIndex(pc) + 1]

\* a plain load in place of the exchange: the flag is left as it was
LoadOnly(value) == [seen |-> value, stored |-> value]

\* std::atomic<bool>::exchange(false): the value read, and the value left behind
ExchangeFalse(value) == [seen |-> value, stored |-> FALSE]

\* qualityLevel = (qualityLevel + 1) % 5
NextQuality(qualityLevel) == (qualityLevel + 1) % 5
\* antiAliasingMode = (antiAliasingMode + 1) % 3
NextAAMode(antiAliasingMode) == (antiAliasingMode + 1) % 3

\* main's locals after the action of toggle flag f
Toggled(m, f) ==
    CASE f = "ambientToggle" -> [m EXCEPT !.ambientEnabled = ~@]
      [] f = "giToggle" -> [m EXCEPT !.giEnabled = ~@]
      [] f = "ssaoToggle" -> [m EXCEPT !.ssaoEnabled = ~@]
      [] f = "lightToggle" -> [m EXCEPT !.lightEnabled = ~@]
      [] f = "ssrToggle" -> [m EXCEPT !.ssrEnabled = ~@]
      [] f = "antiAliasingToggle" -> [m EXCEPT !.antiAliasingMode = NextAAMode(@)]
      [] f = "qualityToggle" -> [m EXCEPT !.qualityLevel = NextQuality(@)]
      [] f = "pauseToggle" -> [m EXCEPT !.paused = ~@]
      [] OTHER -> m

\* a render loop in which no toggle resets the accumulation
ResetsAfterNone(f) == FALSE

\* the toggles whose handling calls rc.resetTemporalAccumulation
ResetsAfter(f) == f \in {"lightToggle", "resetTemporal"}

\* a render loop that ignores movement input when deciding to reset
IgnoresMovement(anyMovement) == FALSE

\* if (anyMovement) rc.resetTemporalAccumulation(), and the same for the light
ResetsOnMovement(anyMovement) == anyMovement

\* cameraMovement > 0.05f || cameraRotation > 0.01f; lightMovement > 0.01f
OverThreshold(delta) == delta = "large"

\* what the claims about invalidation count as a request to invalidate
InvalidatingToggles == {"lightToggle", "resetTemporal"}

\* while (!window.shouldClose()); after the loop the threads are stopped and joined
LoopHead ==
    /\ mainLocals.pc = "loop"
    /\ IF window.shouldClose
       THEN /\ mainLocals' = [mainLocals EXCEPT !.pc = "done"]
            /\ inputThread' = [inputThread EXCEPT !.running = FALSE]
       ELSE /\ mainLocals' = [mainLocals EXCEPT !.pc = StepAfter("loop"),
                                               !.acted = "none", !.invalidated = FALSE,
                                               !.resetCalled = FALSE, !.resized = FALSE]
            /\ UNCHANGED inputThread
    /\ UNCHANGED <<engineVars, inputData, window>>

\* if (inputData.exitRequested) glfwSetWindowShouldClose(window, true)
ExitCheck ==
    /\ mainLocals.pc = "exit"
    /\ window' = IF inputData.exitRequested THEN [window EXCEPT !.shouldClose = TRUE]
                 ELSE window
    /\ mainLocals' = [mainLocals EXCEPT !.pc = StepAfter("exit")]
    /\ UNCHANGED <<engineVars, inputData, inputThread>>

\* if (inputData.<f>.exchange(false)) { ... }
PollToggle(f) ==
    /\ mainLocals.pc = f
    /\ \E x \in {ExchangeFalse(inputData[f])} :
          /\ inputData' = [inputData EXCEPT ![f] = x.stored]
          /\ mainLocals' =
                [(IF x.seen THEN Toggled(mainLocals, f) ELSE mainLocals) EXCEPT
                    !.pc = StepAfter(f),
                    !.acted = IF x.seen THEN f ELSE "none",
                    !.invalidated = @ \/ (x.seen /\ f \in InvalidatingToggles),
                    !.resetCalled = @ \/ (x.seen /\ ResetsAfter(f))]
          /\ IF x.seen /\ ResetsAfter(f) THEN ResetTemporalAccumulation
             ELSE UNCHANGED engineVars
    /\ UNCHANGED <<inputThread, window>>

\* camera movement and light controls from the input flags (only when not
\* paused); camera and light: how far they then are from the recorded ones
MovementStep ==
    /\ mainLocals.pc = "movement"
    /\ \E camera \in Deltas, light \in Deltas :
          LET anyMovement == ~mainLocals.paused /\ inputData["moveForward"]
              lightMoved == ~mainLocals.paused /\ inputData["lightMoveX"]
              anyLightMovement ==
                  lightMoved \/ (~mainLocals.paused /\ inputData["lightIntensityDelta"])
              resets == ResetsOnMovement(anyMovement) \/ ResetsOnMovement(anyLightMovement)
          IN  /\ ~anyMovement => camera = mainLocals.cameraDelta
              /\ ~lightMoved => light = mainLocals.lightDelta
              /\ mainLocals' = [mainLocals EXCEPT
                                   !.pc = StepAfter("movement"), !.acted = "none",
                                   !.cameraDelta = camera, !.lightDelta = light,
                                   !.invalidated = @ \/ anyMovement \/ anyLightMovement,
                                   !.resetCalled = @ \/ resets]
              /\ IF resets THEN ResetTemporalAccumulation ELSE UNCHANGED engineVars
    /\ UNCHANGED <<inputData, inputThread, window>>

\* the light and camera tracking: the first iteration records both, later ones
\* reset the accumulation and record when a threshold is exceeded
SceneStep ==
    /\ mainLocals.pc = "scene"
    /\ LET m == mainLocals
           lightDelta == IF m.firstCameraFrame THEN "none" ELSE m.lightDelta
           cameraReset == ~m.firstCameraFrame /\ OverThreshold(m.cameraDelta)
           lightReset == OverThreshold(lightDelta)
       IN  /\ mainLocals' = [m EXCEPT
                                !.pc = StepAfter("scene"), !.firstCameraFrame = FALSE,
                                !.cameraDelta = IF m.firstCameraFrame \/ cameraReset
                                                THEN "none" ELSE @,
                                !.lightDelta = IF lightReset THEN "none" ELSE lightDelta,
                                !.invalidated = @ \/ (~m.firstCameraFrame
                                                      /\ m.cameraDelta = "large")
                                                  \/ lightDelta = "large",
                                !.resetCalled = @ \/ cameraReset \/ lightReset]
           /\ IF cameraReset \/ lightReset THEN ResetTemporalAccumulation
              ELSE UNCHANGED engineVars
    /\ UNCHANGED <<inputData, inputThread, window>>

\* glfwGetFramebufferSize; if (width != lastWidth || height != lastHeight) rc.resize
ResizeStep ==
    /\ mainLocals.pc = "resize"
    /\ IF window.width # mainLocals.lastWidth \/ window.height # mainLocals.lastHeight
       THEN /\ Resize(window.width, window.height)
            /\ mainLocals' = [mainLocals EXCEPT !.pc = StepAfter("resize"),
                                               !.lastWidth = window.width,
                                               !.lastHeight = window.height,
                                               !.resized = TRUE]
       ELSE /\ mainLocals' = [mainLocals EXCEPT !.pc = StepAfter("resize")]
            /\ UNCHANGED engineVars
    /\ UNCHANGED <<inputData, inputThread, window>>

\* window.pollEvents (the mouse callback turns the camera: mouse is "same" or
\* the camera's new distance from the recorded one), then the passes of the frame
RenderStep(mouse) ==
    /\ mainLocals.pc = "render"
    /\ Frame(mainLocals.qualityLevel, mainLocals.giEnabled, mainLocals.ssaoEnabled,
             mainLocals.ssrEnabled, mainLocals.antiAliasingMode, SceneHasMaterial)
    /\ mainLocals' = [mainLocals EXCEPT
                         !.pc = StepAfter("render"),
                         !.cameraDelta = IF mouse = "same" THEN @ ELSE mouse]
    /\ UNCHANGED <<inputData, inputThread, window>>

\* if (inputData.showPerformance.exchange(false)) profiler.logDetailedStats()
ShowPerformanceStep ==
    /\ mainLocals.pc = "showPerformance"
    /\ \E x \in {ExchangeFalse(inputData["showPerformance"])} :
          /\ inputData' = [inputData EXCEPT !["showPerformance"] = x.stored]
          /\ mainLocals' = [mainLocals EXCEPT
                               !.pc = StepAfter("showPerformance"),
                               !.acted = IF x.seen THEN "showPerformance" ELSE "none"]
    /\ UNCHANGED <<engineVars, inputThread, window>>

\* one step of the render thread outside the passes of the frame
RenderThreadBetweenFrames ==
    \/ LoopHead
    \/ ExitCheck
    \/ \E i \in DOMAIN ToggleFlags : PollToggle(ToggleFlags[i])
    \/ MovementStep
    \/ SceneStep
    \/ ResizeStep
    \/ ShowPerformanceStep

\* one step of the render thread
RenderThread(mouse) ==
    \/ RenderThreadBetweenFrames
    \/ RenderStep(mouse)

\* inputProcessingThread: one key sampled with glfwGetKey and its flag written;
\* a level flag is rewritten from the key, an edge flag is raised on a rising edge
InputSample(f, pressed) ==
    /\ inputThread.running
    /\ IF f \in EdgeFlags
       THEN /\ inputData' = IF ~inputThread.last[f] /\ pressed
                            THEN [inputData EXCEPT ![f] = TRUE] ELSE inputData
            /\ inputThread' = [inputThread EXCEPT
                                  !.last[f] = pressed,
                                  !.accessed = @ \cup {"running", "glfwGetKey", "inputData"}]
       ELSE /\ inputData' = [inputData EXCEPT ![f] = pressed]
            /\ inputThread' = [inputThread EXCEPT
                                  !.accessed = @ \cup {"running", "glfwGetKey", "inputData"}]
    /\ UNCHANGED <<engineVars, mainLocals, window>>

\* performanceMonitoringThread: it only sleeps
PerformanceMonitoringThread ==
    /\ inputThread.running
    /\ UNCHANGED vars

\* the user resizes the window
WindowResized(size) ==
    /\ mainLocals.pc # "done"
    /\ <<window.width, window.height>> # size
    /\ window' = [window EXCEPT !.width = size[1], !.height = size[2]]
    /\ UNCHANGED <<engineVars, mainLocals, inputData, inputThread>>

\* The render loop under quality and GI toggles.
LoopKeys == {"giToggle", "qualityToggle"}

LoopInit == AppInit /\ EngineOfMain

LoopNext ==
    \/ RenderThread("same")
    \/ \E f \in LoopKeys, pressed \in BOOLEAN : InputSample(f, pressed)

LoopSpec == LoopInit /\ [][LoopNext]_vars

\* The render loop under window resizes, with GI switched on and off.
ResizeKeys == {"giToggle"}

ResizeNext ==
    \/ RenderThread("same")
    \/ \E f \in ResizeKeys, pressed \in BOOLEAN : InputSample(f, pressed)
    \/ \E size \in ScreenSizes : WindowResized(size)

ResizeSpec == LoopInit /\ [][ResizeNext]_vars

\* The render loop under everything that invalidates the temporal history:
\* camera and light movement keys, the light toggle, the reset key, and the
\* mouse turning the camera.
MotionKeys ==
    {"lightToggle", "resetTemporal", "moveForward", "lightMoveX", "lightIntensityDelta"}
MouseEvents == {"same"} \cup Deltas

MotionNext ==
    \/ \E mouse \in MouseEvents : RenderThread(mouse)
    \/ \E f \in MotionKeys, pressed \in BOOLEAN : InputSample(f, pressed)

MotionSpec == LoopInit /\ [][MotionNext]_vars

\* The three threads of main: the render loop, the input thread raising the
\* GI toggle, the reset request and the exit request, the performance thread.
ThreadKeys == {"giToggle", "resetTemporal", "exitRequested"}

ThreadNext ==
    \/ RenderThread("same")
    \/ \E f \in ThreadKeys, pressed \in BOOLEAN : InputSample(f, pressed)
    \/ PerformanceMonitoringThread

ThreadSpec == LoopInit /\ [][ThreadNext]_vars

\* the render loop cannot go on: the bound on the number of compute calls
Stalled == mainLocals.pc = "render" /\ mainLocals.giEnabled /\ clock >= MaxClock

\* The render thread is a running thread of the process: it keeps taking
\* steps for as long as it has one to take. For the frame step, which is
\* enabled exactly at "render" when not Stalled and is the only step that
\* leaves that position, weak fairness is stated by its meaning: the thread
\* does not stay there forever.
FairThreadSpec ==
    /\ ThreadSpec
    /\ WF_vars(RenderThreadBetweenFrames)
    /\ []<>(mainLocals.pc # "render" \/ Stalled)

\* ------------------------------------------------------------------ properties
\* the radiance draws among the commands of the last engine call
RadiancePasses == SelectSeq(passes, LAMBDA p : p.op = "radiance")

\* the cascade count the last compute call ran with (-1 means all)
EffectiveCount == IF lastCall.a = -1 THEN numCascades ELSE lastCall.a

\* the textures the samplers of a radiance draw read
SampledInputs(p) == {p.previousCascade, p.temporalBuffer} \cup p.gbuffer

LevelObjects(j) == {Cascade(j), TempBlur(j), Temporal(j)}

\* C1: after construction or resize, every level's stored width and height
\* are at least the 128-pixel floor, and no level is larger than the level
\* before it.
C1_NonIncreasingAboveFloor ==
    \A i \in Levels :
        /\ cascadeWidths[i] >= MinCascadeRes
        /\ cascadeHeights[i] >= MinCascadeRes
        /\ i >= 1 => /\ cascadeWidths[i] <= cascadeWidths[i - 1]
                     /\ cascadeHeights[i] <= cascadeHeights[i - 1]

\* C2: every radiance pass of level i runs with minDist = 2^i and
\* maxDist = 2^(i+1); the bands of consecutive levels meet (maxDist of level
\* i is minDist of level i+1) and the bands of distinct levels do not overlap.
C2_DistanceBands ==
    \A m \in 1 .. Len(RadiancePasses) :
        LET p == RadiancePasses[m]
        IN  /\ p.cascadeIndex = p.level
            /\ p.minDist = 2 ^ p.level
            /\ p.maxDist = 2 ^ (p.level + 1)
            /\ \A n \in 1 .. Len(RadiancePasses) :
                 LET q == RadiancePasses[n]
                 IN  /\ q.level = p.level + 1 => p.maxDist = q.minDist
                     /\ q.level > p.level => p.maxDist <= q.minDist

\* a compute over three levels: two interior band boundaries
C2_Witness ==
    /\ lastCall.op = "compute"
    /\ Len(RadiancePasses) = 3
    /\ RadiancePasses[1].minDist = 4

\* C3: after resize(w, h), frameCounter is 0, every full-size target is
\* allocated at exactly w x h, and every cascade, scratch-blur and temporal
\* target of level i is allocated at the per-level resolution of (w, h).
C3_ResizeReallocates ==
    lastCall.op = "resize" =>
        /\ frameCounter = 0
        /\ screenWidth = lastCall.a /\ screenHeight = lastCall.b
        /\ \A o \in FullSizeObjects :
             /\ targets[o].fmt # "deleted"
             /\ targets[o].w = lastCall.a
             /\ targets[o].h = lastCall.b
        /\ \A i \in Levels :
             /\ cascadeWidths[i] = CascadeRes(i, lastCall.a)
             /\ cascadeHeights[i] = CascadeRes(i, lastCall.b)
             /\ \A o \in LevelObjects(i) :
                  /\ targets[o].fmt # "deleted"
                  /\ targets[o].w = CascadeRes(i, lastCall.a)
                  /\ targets[o].h = CascadeRes(i, lastCall.b)

\* a resize to the small size made after frames were computed at the large one
C3_Witness ==
    /\ lastCall.op = "resize"
    /\ lastCall.a = 160
    /\ clock > 0
    /\ \E i \in Levels : cascadeContent[i].kind = "undefined"

\* C4: a compute call with activeCascades = k, 0 <= k < numCascades, writes
\* only levels below k, leaves the cascade and temporal contents of every
\* level j >= k as they were, and none of its radiance passes samples a
\* texture of a level j >= k.
C4_InactiveLevelsUntouched ==
    [][(lastCall'.op = "compute" /\ clock' = clock + 1
          /\ lastCall'.a >= 0 /\ lastCall'.a < numCascades) =>
        /\ \A n \in 1 .. Len(passes') : passes'[n].level < lastCall'.a
        /\ \A j \in lastCall'.a .. (numCascades - 1) :
             /\ cascadeContent'[j] = cascadeContent[j]
             /\ temporalContent'[j] = temporalContent[j]
             /\ \A n \in 1 .. Len(passes') :
                  passes'[n].op = "radiance" =>
                      SampledInputs(passes'[n]) \cap LevelObjects(j) = {}]_vars

\* C5: in the radiance pass of level i, a cascade texture bound to the
\* previous-cascade unit is the texture of level i+1, never that of level i
\* or of a finer level.
C5_OnlyNextCoarserOnUnit ==
    \A m \in 1 .. Len(RadiancePasses) :
        \A j \in Levels :
            (\/ RadiancePasses[m].unit4 = Cascade(j)
             \/ RadiancePasses[m].previousCascade = Cascade(j))
                => j = RadiancePasses[m].level + 1

\* C6: compute with activeCascades = k issues one radiance pass per level in
\* the order k-1, ..., 0, and every level below the coarsest active one reads
\* the texture of the level above it, whose pass was issued earlier in the
\* same call.
C6_CoarseToFine ==
    lastCall.op = "compute" =>
        /\ Len(RadiancePasses) = EffectiveCount
        /\ \A n \in 1 .. Len(RadiancePasses) :
             LET p == RadiancePasses[n]
             IN  /\ p.level = EffectiveCount - n
                 /\ p.target = Cascade(p.level)
                 /\ p.level < EffectiveCount - 1 =>
                      /\ p.previousCascade = Cascade(p.level + 1)
                      /\ p.unit4 = Cascade(p.level + 1)
                      /\ \E m \in 1 .. (n - 1) :
                           /\ RadiancePasses[m].level = p.level + 1
                           /\ cascadeContent[p.level + 1].time = clock - 1

\* a compute over two levels of three: the finer reads the coarser
C6_Witness ==
    /\ lastCall.op = "compute"
    /\ lastCall.a = 2
    /\ numCascades = 3
    /\ Len(RadiancePasses) = 2

\* whether temporal accumulation was on, with a frame of history, when the
\* last compute call started
C7_HadHistory == useTemporalBuffer /\ lastCall.b > 0

C7_PassesOfLastCompute ==
    lastCall.op = "compute" =>
        \A n \in 1 .. Len(RadiancePasses) :
            LET p == RadiancePasses[n]
            IN  /\ (/\ p.temporalBuffer = Temporal(p.level)
                    /\ p.unit5 = Temporal(p.level)
                    /\ p.useTemporalAccumulation) <=> C7_HadHistory
                /\ ~C7_HadHistory => ~p.useTemporalAccumulation

\* C7: a radiance pass has its level's temporal buffer bound and blending
\* enabled exactly when accumulation is enabled and frameCounter was positive
\* at the start of the compute call, and otherwise runs with
\* useTemporalAccumulation = false; the first compute after construction,
\* resize or resetTemporalAccumulation blends in no pass.
C7_TemporalGate ==
    [][/\ C7_PassesOfLastCompute'
       /\ (/\ lastCall.op \in {"construct", "resize", "resetTemporalAccumulation"}
           /\ lastCall'.op = "compute") =>
             \A n \in 1 .. Len(passes') :
                 passes'[n].op = "radiance" => ~passes'[n].useTemporalAccumulation]_vars

\* a second consecutive compute with accumulation on: its passes blend
C7_Witness ==
    /\ lastCall.op = "compute"
    /\ lastCall.b > 0
    /\ useTemporalBuffer
    /\ Len(RadiancePasses) >= 2
    /\ RadiancePasses[1].useTemporalAccumulation

\* C8: resetTemporalAccumulation leaves every level's temporal buffer zero
\* and frameCounter 0, and changes neither useTemporalBuffer nor any cascade
\* texture.
C8_ResetClearsAllLevels ==
    [][lastCall'.op = "resetTemporalAccumulation" =>
        /\ \A i \in Levels : temporalContent'[i] = Zero
        /\ frameCounter' = 0
        /\ useTemporalBuffer' = useTemporalBuffer
        /\ cascadeContent' = cascadeContent]_vars

\* a reset after a compute over all levels and one over fewer levels
C8_Witness ==
    /\ lastCall.op = "resetTemporalAccumulation"
    /\ useTemporalBuffer
    /\ rcUniforms.activeCascades < numCascades
    /\ \A i \in Levels : cascadeContent[i].kind = "radiance"

\* C9: setTemporalAccumulation(false) leaves all temporal buffers zero and
\* frameCounter 0; while accumulation is disabled the temporal buffers stay
\* zero, and a compute call copies to none, blends in no pass and writes
\* unblended radiance.
C9_DisabledIsSingleFrame ==
    /\ (lastCall.op = "setTemporalAccumulation" /\ lastCall.a = 0) =>
           /\ frameCounter = 0
           /\ ~useTemporalBuffer
           /\ \A i \in Levels : temporalContent[i] = Zero
    /\ ~useTemporalBuffer => \A i \in Levels : temporalContent[i] = Zero
    /\ (lastCall.op = "compute" /\ ~useTemporalBuffer) =>
           /\ \A n \in 1 .. Len(passes) :
                /\ passes[n].op = "radiance"
                /\ ~passes[n].useTemporalAccumulation
           /\ \A i \in Levels :
                cascadeContent[i].time = clock - 1 => ~cascadeContent[i].blended

\* a compute made while disabled, after a frame that had accumulated
C9_Witness ==
    /\ lastCall.op = "compute"
    /\ ~useTemporalBuffer
    /\ clock = 2
    /\ Len(RadiancePasses) >= 2

\* C10: the first compute call after setTemporalAccumulation(true) re-enables
\* a disabled accumulator blends in no radiance pass.
C10_NoSamplingOnReenable ==
    [][(/\ lastCall.op = "setTemporalAccumulation"
        /\ lastCall.a = 1
        /\ lastCall.b = 0
        /\ lastCall'.op = "compute") =>
          \A n \in 1 .. Len(passes') :
              passes'[n].op = "radiance" => ~passes'[n].useTemporalAccumulation]_vars

\* a step of the model that is a compute call
ComputeStep == lastCall'.op = "compute" /\ clock' = clock + 1

\* C11: with accumulation enabled, whenever a radiance pass of level i
\* samples level i's temporal buffer, the buffer holds (as it stood when the
\* call began, a level's buffer being rewritten only after its own pass) the
\* radiance of level i written by the immediately preceding compute call.
C11_TemporalHoldsPreviousFrame ==
    [][(ComputeStep /\ useTemporalBuffer) =>
        \A n \in 1 .. Len(passes') :
            (/\ passes'[n].op = "radiance"
             /\ passes'[n].useTemporalAccumulation
             /\ passes'[n].temporalBuffer = Temporal(passes'[n].level)) =>
                /\ temporalContent[passes'[n].level].kind = "radiance"
                /\ temporalContent[passes'[n].level].level = passes'[n].level
                /\ temporalContent[passes'[n].level].time = clock - 1]_vars

\* C12: after a compute call, the temporal buffer of every level active in
\* the call holds the radiance that the call's pass wrote to the level's
\* cascade target (same level, same frame), whatever the accumulation flag.
C12_CopiedEveryFrame ==
    [][ComputeStep =>
        \A n \in 1 .. Len(passes') :
            passes'[n].op = "radiance" =>
                /\ temporalContent'[passes'[n].level].kind = "radiance"
                /\ temporalContent'[passes'[n].level].level = passes'[n].level
                /\ temporalContent'[passes'[n].level].time = clock
                /\ cascadeContent'[passes'[n].level].time = clock]_vars

\* the textures an issued command reads, and the texture it writes
CommandInputs(c) == IF c.op = "radiance" THEN SampledInputs(c)
                    ELSE IF c.op = "blit" THEN {c.src} ELSE {}

\* C13: in a compute call every copy into level i's temporal buffer comes
\* right after level i's radiance pass and before the pass of level i-1
\* (with accumulation enabled every active level has its copy), and no
\* issued command both samples and writes the same temporal buffer.
C13_CopyAfterOwnPass ==
    lastCall.op = "compute" =>
        \A n \in 1 .. Len(passes) :
            /\ passes[n].op = "blit" =>
                 /\ n > 1
                 /\ passes[n - 1].op = "radiance"
                 /\ passes[n - 1].level = passes[n].level
                 /\ passes[n].src = Cascade(passes[n].level)
                 /\ passes[n].target = Temporal(passes[n].level)
                 /\ \A m \in 1 .. Len(passes) :
                      (passes[m].op = "radiance" /\ passes[m].level < passes[n].level)
                          => m > n
            /\ (passes[n].op = "radiance" /\ useTemporalBuffer) =>
                 /\ n < Len(passes)
                 /\ passes[n + 1].op = "blit"
                 /\ passes[n + 1].level = passes[n].level
            /\ \A j \in Levels :
                 ~(Temporal(j) \in CommandInputs(passes[n]) /\ passes[n].target = Temporal(j))

\* a compute whose first pass blends its temporal buffer and is then copied
C13_Witness ==
    /\ lastCall.op = "compute"
    /\ Len(passes) >= 4
    /\ passes[1].op = "radiance"
    /\ passes[1].useTemporalAccumulation
    /\ passes[1].temporalBuffer = passes[2].target
    /\ passes[2].op = "blit"

\* the blur draws among the commands of the last engine call
BlurPasses == SelectSeq(passes, LAMBDA p : p.op = "blur")

BlurCount == IF lastCall'.a = -1 THEN numCascades ELSE lastCall'.a

\* C15: blur(shader, k) issues both passes for every level below k whatever
\* its size, so that radiance in those levels comes out filtered in both
\* directions; it leaves the cascade, scratch and temporal contents of every
\* level from k up as they were; -1 stands for all levels; frameCounter is
\* not changed.
C15_BlurPrefixOnly ==
    [][(lastCall'.op = "blur" /\ clock' = clock) =>
        /\ frameCounter' = frameCounter
        /\ temporalContent' = temporalContent
        /\ Len(passes') = 2 * BlurCount
        /\ \A i \in 0 .. (BlurCount - 1) :
             /\ passes'[2 * i + 1].level = i
             /\ passes'[2 * i + 2].level = i
             /\ cascadeContent[i].kind = "radiance" =>
                  /\ cascadeContent'[i].kind = "radiance"
                  /\ cascadeContent'[i].time = cascadeContent[i].time
                  /\ cascadeContent'[i].dirs = {"horizontal", "vertical"}
        /\ \A j \in BlurCount .. (numCascades - 1) :
             /\ cascadeContent'[j] = cascadeContent[j]
             /\ tempBlurContent'[j] = tempBlurContent[j]]_vars

\* a small screen, three levels computed, the two finest blurred
C15_Witness ==
    /\ lastCall.op = "blur"
    /\ lastCall.a = 2
    /\ numCascades = 3
    /\ cascadeWidths[2] < MinCascadeRes
    /\ cascadeContent[1].dirs = {"horizontal", "vertical"}
    /\ cascadeContent[2].kind = "radiance"
    /\ cascadeContent[2].dirs = {}

\* the levels a call given activeCascades = k should cover once k is clamped
\* to [0, numCascades]
ClampedCount(k) == IF k > numCascades THEN numCascades ELSE IF k < 0 THEN 0 ELSE k

\* C16: a compute or blur call whose activeCascades argument lies outside
\* [0, numCascades] (the default -1, which stands for all levels, set aside)
\* returns, uses no level index outside [0, numCascades),
\* and covers exactly the levels of the clamped argument: one radiance pass
\* per level for compute, two blur passes per level for blur.
C16_ArgumentClamped ==
    [][(lastCall' # lastCall /\ (lastCall'.a > numCascades \/ lastCall'.a < -1)) =>
        /\ lastCall'.op # "crash"
        /\ \A n \in 1 .. Len(passes') : passes'[n].level \in Levels
        /\ lastCall'.op = "compute" =>
             Len(SelectSeq(passes', LAMBDA p : p.op = "radiance"))
                 = ClampedCount(lastCall'.a)
        /\ lastCall'.op = "blur" =>
             Len(SelectSeq(passes', LAMBDA p : p.op = "blur"))
                 = 2 * ClampedCount(lastCall'.a)]_vars

\* ------------------------------------------------------------ frames (C17, C18)
\* the resources a command writes: a draw into the G-buffer framebuffer
\* writes every attachment
WritesOf(c) == IF c.target = GBufferFbo THEN GBufferObjects ELSE {c.target}

\* the textures a command samples in the frame; a radiance draw samples the
\* temporal buffer only when its useTemporalAccumulation uniform is set
ReadsOf(c) ==
    IF c.op = "radiance"
    THEN c.gbuffer \cup {c.previousCascade}
         \cup (IF c.useTemporalAccumulation THEN {c.temporalBuffer} ELSE {})
    ELSE IF c.op = "blit" THEN {c.src}
    ELSE IF c.op = "blur" THEN {c.inputTexture} \cup c.guides
    ELSE IF c.op = "clear" THEN {}
    ELSE c.reads

\* the pass a command belongs to: the G-buffer pass is the bind, the clears
\* and the geometry draws; every other command is a pass of its own
PassOf(c) ==
    IF c.target = GBufferFbo THEN <<"gbuffer", 0>>
    ELSE IF c.op = "blur" THEN <<c.dir, c.level>>
    ELSE <<c.op, c.level>>

SharedResources ==
    GBufferObjects \cup {Cascade(i) : i \in Levels} \cup {Temporal(i) : i \in Levels}

WriterPasses(r) == {PassOf(passes[n]) : n \in {k \in 1 .. Len(passes) : r \in WritesOf(passes[k])}}

\* the positions in the frame's command list at which r is written / read
WritePositions(r) == {n \in 1 .. Len(passes) : r \in WritesOf(passes[n])}
ReadPositions(r) == {n \in 1 .. Len(passes) : r \in ReadsOf(passes[n])}

\* a radiance draw whose previous-cascade sampler was not bound by compute
\* and so names whatever stayed on its unit
UnboundPreviousRead(c, r) ==
    /\ c.op = "radiance"
    /\ ~BindsPreviousCascade(c.level)
    /\ r = c.previousCascade
    /\ r \notin c.gbuffer

\* C17 as stated: in a frame every shared resource that is written has
\* exactly one writer pass, and every read of it comes after that writer.
C17_SingleWriterPerFrame ==
    lastCall.op = "frame" =>
        \A r \in SharedResources :
            WritePositions(r) # {} =>
                /\ Cardinality(WriterPasses(r)) = 1
                /\ \A n \in ReadPositions(r) : \E m \in WritePositions(r) : m < n

\* C17, amended: in a frame the G-buffer is written by the G-buffer pass only
\* and every read of an attachment comes after it; a cascade texture written
\* in the frame is written by its level's radiance pass and, if the level is
\* blurred, afterwards by its vertical blur pass, and every read of it comes
\* after the radiance pass, except through a previous-cascade sampler that
\* compute left unbound; a temporal buffer written in the frame has the copy
\* of its level as its only writer and is read only before that copy.
C17_WriteOrderPerFrame ==
    lastCall.op = "frame" =>
        /\ \A r \in GBufferObjects :
              /\ WritePositions(r) # {}
              /\ WriterPasses(r) = {<<"gbuffer", 0>>}
              /\ \A n \in ReadPositions(r), m \in WritePositions(r) : m < n
        /\ \A i \in Levels :
              WritePositions(Cascade(i)) # {} =>
                 /\ WriterPasses(Cascade(i)) \subseteq {<<"radiance", i>>, <<"vertical", i>>}
                 /\ \E m \in WritePositions(Cascade(i)) :
                       /\ passes[m].op = "radiance"
                       /\ \A k \in WritePositions(Cascade(i)) \ {m} :
                             passes[k].op = "blur" /\ k > m
                       /\ \A n \in ReadPositions(Cascade(i)) :
                             n > m \/ UnboundPreviousRead(passes[n], Cascade(i))
        /\ \A i \in Levels :
              WritePositions(Temporal(i)) # {} =>
                 /\ Cardinality(WritePositions(Temporal(i))) = 1
                 /\ \A m \in WritePositions(Temporal(i)) :
                       /\ passes[m].op = "blit" /\ passes[m].level = i
                       /\ \A n \in ReadPositions(Temporal(i)) :
                             n < m /\ passes[n].op = "radiance" /\ passes[n].level = i

\* a frame in which level 0 is drawn with its history, copied and blurred
C17_Witness ==
    /\ lastCall.op = "frame"
    /\ \E n, b, v \in 1 .. Len(passes) :
          /\ n < b /\ b < v
          /\ passes[n].op = "radiance" /\ passes[n].level = 0
          /\ passes[n].useTemporalAccumulation
          /\ passes[n].temporalBuffer = Temporal(0)
          /\ passes[b].op = "blit" /\ passes[b].target = Temporal(0)
          /\ passes[v].op = "blur" /\ passes[v].target = Cascade(0)

\* the commands of a frame that clear the G-buffer: bindGBufferForWriting
\* clears after binding, and a glClear issued while it is bound
GBufferClears ==
    {n \in 1 .. Len(passes) :
        /\ passes[n].target = GBufferFbo
        /\ passes[n].op \in {"bindGBufferForWriting", "clear"}}

GBufferBinds == {n \in 1 .. Len(passes) : passes[n].op = "bindGBufferForWriting"}

\* the passes that consume the G-buffer
DownstreamOps ==
    {"ssao", "ssaoBlur", "radiance", "blit", "blur", "composite", "ssr", "fxaa",
     "taa", "historyCopy", "present"}

Downstream == {n \in 1 .. Len(passes) : passes[n].op \in DownstreamOps}

\* C18 as stated: in a frame the G-buffer is bound for writing and cleared
\* exactly once, before every downstream pass, and no downstream pass
\* targets it.
C18_BoundAndClearedOnce ==
    lastCall.op = "frame" =>
        /\ Cardinality(GBufferBinds) = 1
        /\ Cardinality(GBufferClears) = 1
        /\ \A b \in GBufferBinds \cup GBufferClears, n \in Downstream : b < n
        /\ \A n \in Downstream : passes[n].target \notin {GBufferFbo} \cup GBufferObjects

\* C18, amended: in a frame bindGBufferForWriting runs exactly once and
\* clears the G-buffer, main clears it once more right after, both before the
\* geometry draws and before every SSAO, radiance, copy, blur, composite, SSR,
\* anti-aliasing and present pass, and no such pass targets the G-buffer
\* framebuffer or one of its attachments.
C18_BoundOnceBeforePasses ==
    lastCall.op = "frame" =>
        /\ Cardinality(GBufferBinds) = 1
        /\ \A b \in GBufferBinds :
              /\ GBufferClears = {b, b + 1}
              /\ passes[b + 1].op = "clear"
              /\ passes[b + 2].op = "geometry" /\ passes[b + 2].target = GBufferFbo
              /\ \A n \in Downstream : b + 2 < n
        /\ \A n \in 1 .. Len(passes) :
              passes[n].target = GBufferFbo =>
                  passes[n].op \in {"bindGBufferForWriting", "clear", "geometry"}
        /\ \A n \in Downstream : passes[n].target \notin {GBufferFbo} \cup GBufferObjects

\* a frame with SSAO, GI with blur, SSR and FXAA after the G-buffer pass
C18_Witness ==
    /\ lastCall.op = "frame"
    /\ {"ssao", "ssaoBlur", "radiance", "blur", "composite", "ssr", "fxaa", "present"}
          \subseteq {passes[n].op : n \in Downstream}
    /\ \E b \in GBufferBinds : b < Len(passes)

\* the number of live GL objects: the ones held by handles and the others
LiveObjects == ObjectCount(gpuObjects.live) + gpuObjects.leaked

\* the handles declared by the class: framebuffers, textures, renderbuffer
EngineHandles ==
    {GBufferFbo, SsaoFbo, SsaoBlurFbo, SsrFbo, TaaFbo, GPosition, GNormal, GAlbedo,
     GDepth, GVelocity, GEmission, RboDepth, HistoryTexture, SsaoTexture,
     SsaoBlurTexture, NoiseTexture, SsrTexture, TaaTexture, CascadeFbos,
     CascadeTextures, TempBlurFbos, TempBlurTextures, TemporalFbos, TemporalTextures}

\* C19: no release ever names an object that is not live; after
\* construction and after every resize every live GL object is held by a
\* handle of the engine, every handle holds live objects, and there are as
\* many as right after construction (18 and 6 per level); after destruction
\* no object is live.
C19_NoLeakNoDoubleRelease ==
    /\ ~gpuObjects.badRelease
    /\ lastCall.op \in {"construct", "resize"} =>
          /\ gpuObjects.leaked = 0
          /\ gpuObjects.live = EngineHandles
          /\ LiveObjects = 18 + 6 * numCascades
    /\ lastCall.op = "destroy" => LiveObjects = 0

\* an engine with the largest cascade count, resized to a size other than
\* 800 x 600, holding one live object per handle
C19_Witness ==
    /\ lastCall.op = "resize"
    /\ numCascades = MaxSetupCascades
    /\ screenWidth # 800
    /\ LiveObjects = 18 + 6 * MaxSetupCascades
    /\ gpuObjects.leaked = 0

\* the resource set a first setup with the engine's current parameters
\* produces in a fresh context
FirstSetup == SetupAll(FreshContext(numCascades), screenWidth, screenHeight)

\* C20: after construction and after every resize (cleanup, then the setup
\* routines again) every target has the dimensions and the storage format
\* that a first setup with the same width, height and numCascades gives it,
\* so a resize to a given size repeated any number of times gives what one
\* resize gives.
C20_SetupIdempotent ==
    lastCall.op \in {"construct", "resize"} =>
        /\ targets = FirstSetup.targets
        /\ cascadeWidths = FirstSetup.cw
        /\ cascadeHeights = FirstSetup.ch

\* an engine with the largest cascade count after cleanup and a second setup
\* at an odd size, with a level at the 128-pixel floor
C20_Witness ==
    /\ lastCall.op = "resize"
    /\ numCascades = MaxSetupCascades
    /\ screenWidth = 171
    /\ targets = FirstSetup.targets
    /\ targets[Cascade(2)].w = 128
    /\ cascadeWidths[numCascades - 1] = MinCascadeRes

\* the framebuffer handles of the engine
FramebufferHandles ==
    {GBufferFbo, CascadeFbos, TempBlurFbos, TemporalFbos, SsaoFbo, SsaoBlurFbo,
     SsrFbo, TaaFbo, TempFbo}

\* C22: every framebuffer a setup routine attached a target to had its
\* completeness checked after the attachment and before it was cleared or
\* rendered to: no framebuffer was cleared unchecked, and every framebuffer
\* the engine holds has been checked.
C22_CheckedBeforeUse ==
    /\ gpuObjects.uncheckedUse = {}
    /\ (gpuObjects.live \cap FramebufferHandles) \subseteq gpuObjects.checked

\* C28: after construction and after any sequence of resizes, the cascade
\* target, the scratch blur target and the temporal buffer of every level i
\* are allocated, all three at cascadeWidths[i] x cascadeHeights[i]: the
\* rectangle compute blits and the viewport of the blur passes.
C28_LevelTargetsSameSize ==
    \A i \in Levels : \A o \in LevelObjects(i) :
        /\ targets[o].fmt # "deleted"
        /\ targets[o].w = cascadeWidths[i]
        /\ targets[o].h = cascadeHeights[i]

\* a resize of an engine whose levels have three different sizes, none the
\* screen's beyond level 1
C28_Witness ==
    /\ lastCall.op = "resize"
    /\ numCascades >= 4
    /\ cascadeWidths[2] < cascadeWidths[1]
    /\ cascadeWidths[3] < cascadeWidths[2]
    /\ targets[Temporal(3)].w = cascadeWidths[3]
    /\ targets[TempBlur(2)].h = cascadeHeights[2]
    /\ targets[Temporal(3)].w # screenWidth

\* C29: in every frame whose composite pass applies ambient occlusion with
\* non-zero strength, the SSAO texture the composite pass samples was written
\* by an SSAO pass issued earlier in the same frame.
C29_SsaoWrittenThisFrame ==
    lastCall.op = "frame" =>
        \A n \in 1 .. Len(passes) :
            (passes[n].op = "composite" /\ passes[n].ssaoStrength # 0) =>
                \E m \in 1 .. (n - 1) :
                    /\ passes[m].op \in {"ssao", "ssaoBlur"}
                    /\ passes[m].target = passes[n].ssaoTexture

\* the commands of the given kind among those of the last engine call or frame
CommandsOf(log, kind) == {n \in 1 .. Len(log) : log[n].op = kind}

\* C30: whenever applyTAA samples the history texture, the history copy at
\* the end of the immediately preceding frame's applyTAA wrote it; failing
\* that (first TAA frame after setup, after a resize or after frames in
\* another anti-aliasing mode) the frame counter handed to the TAA pass is 0.
C30_HistoryIsPreviousFrame ==
    [][\A n \in CommandsOf(passes', "taa") :
          lastCall'.op = "frame" =>
             \/ /\ lastCall.op = "frame"
                /\ \E m \in CommandsOf(passes, "historyCopy") :
                      passes[m].target = passes'[n].historyFrame
             \/ passes'[n].frameCounter = 0]_vars

\* C23: frameCounter changes only as follows: a compute call raises it by
\* exactly 1, whatever activeCascades is; resize, resetTemporalAccumulation
\* and setTemporalAccumulation(false) set it to 0; every other operation
\* leaves it as it is.
C23_FrameCounterRule ==
    [][LET op == lastCall'.op
       IN  /\ op = "compute" => frameCounter' = frameCounter + 1
           /\ op \in {"resize", "resetTemporalAccumulation"} => frameCounter' = 0
           /\ op = "setTemporalAccumulation" =>
                 frameCounter' = IF lastCall'.a = 0 THEN 0 ELSE frameCounter
           /\ op \notin {"compute", "resize", "resetTemporalAccumulation",
                         "setTemporalAccumulation"} => frameCounter' = frameCounter]_vars

\* a second compute in a row, called with activeCascades = 0
C23_Witness ==
    /\ lastCall = Call("compute", 0, 1)
    /\ frameCounter = 2
    /\ passes = <<>>

\* the cascade levels the commands of one kind in the last call worked on
LevelsOf(kind) == {passes[j].level : j \in {i \in DOMAIN passes : passes[i].op = kind}}

\* C27: in every iteration of the render loop, under any sequence of quality
\* and GI toggles, qualityLevel is in 0..4; compute works on the levels
\* 0..activeCascades-1 with activeCascades in [0, numCascades] (none at all
\* when GI is disabled); blur works only on levels compute worked on in the
\* same frame; and the compositor binds exactly the cascade textures of the
\* levels compute wrote in that frame.
C27_CascadeCountsInRange ==
    /\ mainLocals.qualityLevel \in 0 .. 4
    /\ lastCall.op = "frame" =>
          LET computed == LevelsOf("radiance")
              ac == IF lastCall.b = 1 THEN rcUniforms.activeCascades ELSE 0
          IN  /\ ac \in 0 .. numCascades
              /\ computed = 0 .. (ac - 1)
              /\ LevelsOf("blur") \subseteq computed
              /\ \A j \in DOMAIN passes :
                    passes[j].op = "composite" =>
                       passes[j].reads \cap {Cascade(i) : i \in Levels}
                           = {Cascade(i) : i \in computed}

\* a frame at quality 1 with GI on: three levels computed, two of them blurred
C27_Witness ==
    /\ lastCall = Call("frame", 1, 1)
    /\ LevelsOf("radiance") = {0, 1, 2}
    /\ LevelsOf("blur") = {0, 1}
    /\ mainLocals.pc = "showPerformance"

\* the objects a command draws into, reads or copies from
Touched(p) ==
    {p.target} \cup (IF "reads" \in DOMAIN p THEN p.reads ELSE {})
               \cup (IF "src" \in DOMAIN p THEN {p.src} ELSE {})
               \cup (IF "previousCascade" \in DOMAIN p
                     THEN {p.previousCascade, p.temporalBuffer} ELSE {})

\* C21: a resize is applied between frames. The engine's resize is called
\* only by the resize check, which leaves the render loop right before the
\* frame's first pass; the call issues nothing but the clears of its own setup
\* routines and returns with every engine object allocated again; the frame
\* is rendered at the size the resize check last applied; and no command of a
\* frame touches an object that is deleted.
C21_ResizeBetweenFrames ==
    /\ lastCall.op = "resize" =>
          /\ mainLocals.pc = "render"
          /\ mainLocals.resized
          /\ \A j \in DOMAIN passes : passes[j].op = "clear"
          /\ \A o \in EngineObjects : targets[o] # Deleted
    /\ lastCall.op = "frame" =>
          \A j \in DOMAIN passes :
             \A o \in Touched(passes[j]) \cap EngineObjects : targets[o] # Deleted
    /\ mainLocals.pc \in {"render", "showPerformance"} =>
          <<screenWidth, screenHeight>> = <<mainLocals.lastWidth, mainLocals.lastHeight>>

\* a frame rendered with GI in an iteration that resized the engine to a
\* window size other than the one it was constructed with
C21_Witness ==
    /\ lastCall = Call("frame", 2, 1)
    /\ mainLocals.resized
    /\ mainLocals.pc = "showPerformance"
    /\ screenWidth = 160
    /\ clock = 2

\* C24: a frame of the render loop that renders GI after the camera was moved
\* by the keyboard, the camera was found further from the recorded one than
\* the thresholds, the light moved further than its threshold or had its
\* properties changed, the main light was toggled or a reset was requested in
\* the same iteration, has had resetTemporalAccumulation called before its
\* compute, which ran with frameCounter == 0 and sampled no temporal history.
C24_InvalidatedFramesStartOver ==
    (/\ lastCall.op = "frame"
     /\ lastCall.b = 1
     /\ mainLocals.pc = "showPerformance"
     /\ mainLocals.invalidated)
        => /\ mainLocals.resetCalled
           /\ rcUniforms.frameCounter = 0
           /\ ~rcUniforms.useTemporalAccumulation
           /\ \A j \in DOMAIN passes :
                 passes[j].op = "radiance" =>
                    ~passes[j].useTemporalAccumulation

\* the second GI frame, rendered while the W key moves the camera
C24_Witness ==
    /\ lastCall.op = "frame"
    /\ lastCall.b = 1
    /\ mainLocals.pc = "showPerformance"
    /\ mainLocals.invalidated
    /\ inputData["moveForward"]
    /\ ~inputData["lightMoveX"]
    /\ ~inputData["lightIntensityDelta"]
    /\ mainLocals.acted = "none"
    /\ clock = 2

\* what a step does to toggle flag f: the poll of f clears it, acts exactly
\* when it was set, and no other step clears it or acts for it
PollRule(f) ==
    IF mainLocals.pc = f /\ mainLocals'.pc # f
    THEN /\ ~inputData'[f]
         /\ (mainLocals'.acted = f) <=> inputData[f]
         /\ f = "giToggle" =>
               ((mainLocals'.giEnabled # mainLocals.giEnabled) <=> inputData[f])
         /\ f = "resetTemporal" =>
               IF inputData[f]
               THEN lastCall'.op = "resetTemporalAccumulation" /\ frameCounter' = 0
               ELSE UNCHANGED engineVars
    ELSE /\ inputData[f] => inputData'[f]
         /\ mainLocals'.acted = f => mainLocals.acted = f
         /\ f = "giToggle" => mainLocals'.giEnabled = mainLocals.giEnabled

\* C26 (for as long as the render loop runs): the poll of a toggle flag
\* clears it in the same step as it reads it and performs the flag's action
\* exactly when the flag was set, no other step clears the flag or performs
\* the action, and a flag that is set is polled and acted on unless the render
\* loop ends first (or the bound on compute calls stops the loop).
C26_HandledOnceWhileLooping ==
    /\ [][\A f \in EdgeFlags : PollRule(f)]_vars
    /\ \A f \in ThreadKeys \cap EdgeFlags :
          inputData[f] ~> (mainLocals.acted = f \/ mainLocals.pc = "done" \/ Stalled)

\* the reset request was polled while the R key was still held down
C26_Witness ==
    /\ mainLocals.acted = "resetTemporal"
    /\ mainLocals.pc = StepAfter("resetTemporal")
    /\ lastCall.op = "resetTemporalAccumulation"
    /\ inputThread.last["resetTemporal"]
    /\ ~inputData["resetTemporal"]

\* C26: a request raised by the input thread is never lost: when the render
\* loop has ended, no toggle flag is left set and unhandled.
C26_NoRequestLost ==
    mainLocals.pc = "done" => \A f \in EdgeFlags : ~inputData[f]

\* the passes of a frame, in the order the render loop issues them
StageOrder ==
    <<"shadow", "bindGBufferForWriting", "geometry", "ssao", "ssaoBlur", "radiance",
      "blur", "composite", "ssr", "fxaa", "taa", "historyCopy", "present">>
StageRank(op) ==
    IF \E n \in DOMAIN StageOrder : StageOrder[n] = op
    THEN CHOOSE n \in DOMAIN StageOrder : StageOrder[n] = op
    ELSE 0

\* the commands of a frame come in the order of its stages (clears and copies
\* belong to the stage they are issued in), and a resize is followed by the frame
EngineCallsInOrder ==
    /\ lastCall.op = "frame" =>
          \A j, k \in DOMAIN passes :
             (j < k /\ StageRank(passes[j].op) > 0 /\ StageRank(passes[k].op) > 0)
                => StageRank(passes[j].op) <= StageRank(passes[k].op)
    /\ lastCall.op = "resize" => mainLocals.pc = "render"
    /\ lastCall.op \in {"construct", "frame", "resize", "resetTemporalAccumulation"}

\* every change of the engine's state is a step of the render thread
EngineOnRenderThread ==
    [][engineVars' # engineVars => mainLocals'.pc # mainLocals.pc]_vars

\* the shared objects the claim allows the threads to communicate through
AtomicChannels == {"inputData", "perfData"}

\* C25: every engine operation is invoked from the render thread, in one
\* fixed order per frame, and what the input thread shares with the render
\* thread is only the atomic fields of InputData / PerformanceData.
C25_AtomicFieldsOnly ==
    /\ EngineCallsInOrder
    /\ inputThread.accessed \subseteq AtomicChannels

====
